---- MODULE Spec2Model ----
(***************************************************************************)
(* A model of the ribbon engine of ourfeelings.art: the CPU backend's      *)
(* frame-rate driven admission controller (P5Canvas.tsx), the seeded path  *)
(* synthesizer (emotions.ts), the per-frame controller of the CPU and the  *)
(* GPU backend, the feelings API that stores the paths, and the selection  *)
(* of the backend by the page component.                                   *)
(*                                                                         *)
(* Numbers.  TLC's integers are 32 bits wide.  Times are milliseconds;     *)
(* Date.now() is modelled relative to an origin so that seven days still   *)
(* fit.  IEEE +Infinity (the "All" step of the ribbon slider) is the       *)
(* integer Infinity below, larger than every finite count of the model,    *)
(* with the arithmetic on it saturating as IEEE arithmetic does.           *)
(***************************************************************************)
EXTENDS Integers, Sequences, FiniteSets, TLC

VARIABLES
    \* ---- CPU backend, admission controller (P5Canvas.tsx, sketch closure)
    settingsRef,          \* settingsRef.current: [maxVisibleRibbons]
    currentMaxRibbons,    \* let currentMaxRibbons
    fpsSamples,           \* const fpsSamples: number[]
    lastFpsCheck,         \* let lastFpsCheck
    effectiveMaxRibbons,  \* const effectiveMaxRibbons of the last frame drawn
    frameRate,            \* what p.frameRate() returns (p5's measured rate)
    loadChanges,          \* how often the measured rate has changed so far
    lastCheck,            \* what the admission check of the last frame did
    settingsChanges,      \* how often the user has moved the ribbon slider so far
    now,                  \* Date.now(), relative to the model's origin
    \* ---- path synthesizer (emotions.ts)
    rngState,             \* createSeededRng's closure variable of the last generator
    calls,                \* how many calls of generateRibbonPath have returned
    lastCall,             \* arguments and result of the last call
    memo,                 \* the first result returned for each argument triple
    \* ---- feelings API (route.ts) and migration script
    kvFeelings,           \* the list stored under FEELINGS_KEY
    kvRate,               \* the time stored under RATE_LIMIT_PREFIX + ip (0: no key)
    uuidCount,            \* how many feelings uuidv4() has named so far
    lastResp,             \* the last response a handler returned
    firstPath,            \* the first path stored for each id and emotionId
    ops,                  \* how many steps have changed the store or the clock
    \* ---- frame controllers (P5Canvas.tsx p.draw, WebGLRibbonRenderer render)
    feelings,             \* the feelings prop both renderers get
    lengthMul,            \* ribbonLengthMultiplier, from the canvas's aspect ratio
    cpuFrame,             \* CPU backend: what the ribbon loop of the last frame did
    gpuSorted,            \* sortedFeelingsRef.current
    gpuCache,             \* feelingsCacheRef.current: for each id it has, the rgb
    gpuLastLen,           \* lastFeelingsLengthRef.current
    gpuMaxRibbons,        \* const maxRibbons of the renderer's effect
    gpuFrame,             \* GPU backend: what the ribbon loop of the last frame did
    fsteps,               \* how many steps the renderers have taken
    \* ---- backend selection (page.tsx Home, WebGLRibbonRenderer initWebGL)
    device,               \* what the browser's WebGL2 implementation can do
    webglSupported,       \* Home's state webglSupported: "null", "true" or "false"
    performanceSettings,  \* Home's state: [renderer, maxVisibleRibbons]
    isMobile,             \* what useIsMobile() returns to Home
    hasSetMobileDefaults, \* hasSetMobileDefaults.current
    mounted,              \* the renderer component Home's last render returned
    glInit,               \* what initWebGL returned to the mounted renderer's effect
    gpuFailed,            \* the probe or initWebGL has failed in this session
    probes,               \* how many times checkWebGL2Support has run
    \* ---- feelings API, handlers running concurrently (route.ts POST, PUT)
    reqs,                 \* each request: its body, its handler's position and locals
    \* ---- GPU backend, life of the renderer's main effect (part_006)
    gpuProps,             \* the props isMobile and reducedMotion of the component
    glFault,              \* the step of initWebGL this device fails at, or "none"
    gpuPhase,             \* "unmounted", "running", "initFailed" or "destroyed"
    glLive,               \* per kind of GL object: how many exist and are not deleted
    resizeListeners,      \* how many 'resize' listeners of the component are attached
    rafPending,           \* a frame callback is scheduled (animationFrameRef.current)
    perfNow,              \* performance.now(), in 1/100 ms
    lastTime,             \* let lastTime
    processedAt,          \* the frames that did their work: when, and the target interval
    callbacks,            \* how many times render has been called back
    effectRuns,           \* how many times the effect has run
    \* ---- the page as a client of the feelings API (part_002)
    storedHash,           \* localStorage[STORAGE_KEY] and the updateHash state, <<>> for null
    homeFeelings,         \* the feelings state of Home
    etagRef,              \* etagRef.current, <<>> for null
    etagIssuedFor,        \* history: the public list the response with that ETag carried
    lastFetch,            \* the last GET: its status and the public list its handler built
    lastSelect,           \* the status of the response to the last handleEmotionSelect
    \* ---- GPU backend, particles (part_006)
    particles,            \* particlesRef.current: life and maxLife of each particle
    targetParticles,      \* the prop targetParticles the running effect was built with
    lastPass,             \* history: the list before and after the last update pass
    particleFrames,       \* how many frames have updated the particles
    particleEffects       \* how many times the effect has run

admVars == <<settingsRef, currentMaxRibbons, fpsSamples, lastFpsCheck,
             effectiveMaxRibbons, frameRate, loadChanges, lastCheck,
             settingsChanges>>

pathVars == <<rngState, calls, lastCall, memo>>

srvVars == <<kvFeelings, kvRate, uuidCount, lastResp, firstPath, ops>>

frameVars == <<feelings, lengthMul, cpuFrame, gpuSorted, gpuCache, gpuLastLen,
               gpuMaxRibbons, gpuFrame, fsteps>>

homeVars == <<device, webglSupported, performanceSettings, isMobile,
              hasSetMobileDefaults, mounted, glInit, gpuFailed, probes>>

gpuVars == <<gpuProps, glFault, gpuPhase, glLive, resizeListeners, rafPending,
             perfNow, lastTime, processedAt, callbacks, effectRuns>>

clientVars == <<storedHash, homeFeelings, etagRef, etagIssuedFor, lastFetch,
               lastSelect>>

particleVars == <<particles, targetParticles, lastPass, particleFrames,
                  particleEffects>>

vars == <<admVars, now, pathVars, srvVars, frameVars, homeVars, reqs, gpuVars,
          clientVars, particleVars>>

\* the state outside the admission controller
notAdm == <<pathVars, srvVars, frameVars, homeVars, reqs, gpuVars, clientVars, particleVars>>
\* the state outside the path synthesizer
notPath == <<admVars, now, srvVars, frameVars, homeVars, reqs, gpuVars, clientVars, particleVars>>
\* the state outside the feelings API (the clock is part of it)
notServer == <<admVars, pathVars, frameVars, homeVars, reqs, gpuVars, clientVars, particleVars>>
\* the state outside the renderers (the clock and the admission controller
\* are part of them)
notFrame == <<pathVars, srvVars, homeVars, reqs, gpuVars, clientVars, particleVars>>

(***************************************************************************)
(* Bounds of the model                                                     *)
(***************************************************************************)
MaxLoadChanges == 1
MaxSettingsChanges == 1
MaxNow == 35600
MaxCalls == 3
MaxOps == 4
MaxFrameSteps == 3
ManyFeelings == 12
MaxPerfNow == 6700
MaxCallbacks == 4
MaxEffectRuns == 2
MaxParticleFrames == 3
MaxParticleEffects == 2

(***************************************************************************)
(* Helpers                                                                 *)
(***************************************************************************)
Min(a, b) == IF a <= b THEN a ELSE b
Max(a, b) == IF a >= b THEN a ELSE b

RECURSIVE SumSeq(_)
SumSeq(s) == IF s = <<>> THEN 0 ELSE Head(s) + SumSeq(Tail(s))

\* IEEE +Infinity: RIBBON_STEPS ends with Infinity ("All")
Infinity == 1000000
isFinite(x) == x < Infinity

(***************************************************************************)
(* Where a part of the program rests while another part is explored        *)
(***************************************************************************)
\* no call of generateRibbonPath has been made
NoCall == [emotionId |-> "none", startY |-> 0, seed |-> <<>>, path |-> <<>>,
           repeat |-> FALSE]

IdlePath ==
    /\ rngState = <<0, 0>>
    /\ calls = 0
    /\ lastCall = NoCall
    /\ memo = <<>>

IdleAdm ==
    /\ settingsRef = [maxVisibleRibbons |-> Infinity]
    /\ currentMaxRibbons = Infinity
    /\ fpsSamples = <<>>
    /\ lastFpsCheck = 0
    /\ effectiveMaxRibbons = Infinity
    /\ frameRate = 60
    /\ loadChanges = 0
    /\ settingsChanges = 0
    /\ lastCheck = [kind |-> "none", before |-> Infinity, userMax |-> Infinity]

\* no request has been handled
NoResp == [op |-> "none", status |-> 0]

IdleServer ==
    /\ kvFeelings = <<>>
    /\ kvRate = <<>>
    /\ uuidCount = 0
    /\ lastResp = NoResp
    /\ firstPath = <<>>
    /\ ops = 0

IdleFrame ==
    /\ feelings = <<>>
    /\ lengthMul = 0
    /\ cpuFrame = <<>>
    /\ gpuSorted = <<>>
    /\ gpuCache = {}
    /\ gpuLastLen = 0
    /\ gpuMaxRibbons = 0
    /\ gpuFrame = <<>>
    /\ fsteps = 0

\* Home before its first render
IdleHome ==
    /\ device = "capable"
    /\ webglSupported = "null"
    /\ performanceSettings = [renderer |-> "auto", maxVisibleRibbons |-> 0]
    /\ isMobile = FALSE
    /\ hasSetMobileDefaults = FALSE
    /\ mounted = "none"
    /\ glInit = "none"
    /\ gpuFailed = FALSE
    /\ probes = 0

\* no request has arrived
IdleRace == reqs = <<>>

\* no update pass has run
NoPass == [before |-> <<>>, deltaTime |-> 0, after |-> <<>>]

\* the GPU renderer has not been mounted: no particle exists
IdleParticles ==
    /\ particles = <<>>
    /\ targetParticles = 0
    /\ lastPass = NoPass
    /\ particleFrames = 0
    /\ particleEffects = 0

\* no GET has been answered
NoFetch == [status |-> 0, publicFeelings |-> <<>>]

\* the page has not been loaded
IdleClient ==
    /\ storedHash = <<>>
    /\ homeFeelings = <<>>
    /\ etagRef = <<>>
    /\ etagIssuedFor = <<>>
    /\ lastFetch = NoFetch
    /\ lastSelect = 0

\* the GPU renderer is not mounted
IdleGpu ==
    /\ gpuProps = [isMobile |-> FALSE, reducedMotion |-> FALSE]
    /\ glFault = "none"
    /\ gpuPhase = "unmounted"
    /\ glLive = <<>>
    /\ resizeListeners = 0
    /\ rafPending = FALSE
    /\ perfNow = 0
    /\ lastTime = 0
    /\ processedAt = <<>>
    /\ callbacks = 0
    /\ effectRuns = 0

(***************************************************************************)
(* Settings.tsx                                                            *)
(***************************************************************************)
\* the values of RIBBON_STEPS the model lets the user choose
RIBBON_STEPS == {20, Infinity}

(***************************************************************************)
(* P5Canvas.tsx: constants                                                 *)
(***************************************************************************)
FPS_SAMPLE_SIZE == 30
FPS_LOW_THRESHOLD == 25
FPS_RECOVERY_THRESHOLD == 45
FPS_CHECK_INTERVAL == 1000
RIBBON_FLOOR == 10
RECOVERY_STEP == 5

\* REDUCED_MOTION_FRAME_RATE, MOBILE_FRAME_RATE, DESKTOP_FRAME_RATE: the rate
\* p.setup asks for with p.frameRate(targetFrameRate)
TargetFrameRates == {20, 30, 60}

\* the rates p.frameRate() reports in the model: the three target rates (20
\* is also what a slow machine reports)
FpsLevels == TargetFrameRates
\* the time between two calls of p.draw
FrameDts == {600}

\* Math.floor(currentMaxRibbons * 0.7); Infinity * 0.7 is Infinity
FloorTimes07(c) == IF isFinite(c) THEN (7 * c) \div 10 ELSE Infinity
\* a recovery step twice as large
PlusStepDouble(c) == IF isFinite(c) THEN c + 2 * RECOVERY_STEP ELSE Infinity
\* currentMaxRibbons + 5; Infinity + 5 is Infinity
PlusStep(c) == IF isFinite(c) THEN c + RECOVERY_STEP ELSE Infinity

\* fpsSamples.push(currentFps); if (length > FPS_SAMPLE_SIZE) shift()
PushSample(samples, fps) ==
    LET pushed == Append(samples, fps)
    IN  IF Len(pushed) > FPS_SAMPLE_SIZE THEN Tail(pushed) ELSE pushed

\* the guard of the periodic check
CheckDue(t, samples) ==
    /\ t - lastFpsCheck > FPS_CHECK_INTERVAL
    /\ Len(samples) >= FPS_SAMPLE_SIZE

\* avgFps < FPS_LOW_THRESHOLD, avgFps > FPS_RECOVERY_THRESHOLD, on the sum
AvgBelowLow(samples) == SumSeq(samples) < FPS_LOW_THRESHOLD * Len(samples)
AvgAboveRecovery(samples) == SumSeq(samples) > FPS_RECOVERY_THRESHOLD * Len(samples)

\* the body of the periodic check: the new currentMaxRibbons
AdjustRibbons(c, samples, userMaxRibbons) ==
    IF AvgBelowLow(samples) /\ c > RIBBON_FLOOR
    THEN Max(RIBBON_FLOOR, FloorTimes07(c))
    ELSE IF AvgAboveRecovery(samples) /\ c < userMaxRibbons
         THEN Min(userMaxRibbons, PlusStep(c))
         ELSE c

\* the stored count used as it is, without the clamp to the user's setting
EffectiveMaxUnclamped(c, userMaxRibbons) == c
\* const effectiveMaxRibbons = Math.min(currentMaxRibbons, settings.maxVisibleRibbons)
EffectiveMax(c, userMaxRibbons) == Min(c, userMaxRibbons)

\* what the check of a frame saw: "none" when the check was not due
CheckKind(due, samples) ==
    IF ~due THEN "none"
    ELSE IF AvgBelowLow(samples) THEN "low"
    ELSE IF AvgAboveRecovery(samples) THEN "high"
    ELSE "mid"

(***************************************************************************)
(* The CPU admission controller as a state machine                         *)
(***************************************************************************)
\* Date.now() when the sketch is built: more than one check interval after 0,
\* the initial lastFpsCheck
T0 == 2 * FPS_CHECK_INTERVAL

InitAdm ==
    /\ settingsRef \in [maxVisibleRibbons : RIBBON_STEPS]
    /\ currentMaxRibbons = settingsRef.maxVisibleRibbons
    /\ fpsSamples = <<>>
    /\ lastFpsCheck = 0
    /\ effectiveMaxRibbons = settingsRef.maxVisibleRibbons
    /\ frameRate \in FpsLevels
    /\ loadChanges = 0
    /\ settingsChanges = 0
    /\ lastCheck = [kind |-> "none", before |-> currentMaxRibbons, userMax |-> settingsRef.maxVisibleRibbons]
    /\ now = T0
    /\ IdlePath
    /\ IdleServer
    /\ IdleFrame
    /\ IdleHome
    /\ IdleRace
    /\ IdleGpu
    /\ IdleClient
    /\ IdleParticles

\* p.draw, lines 545-573: one frame of the sketch, dt after the last one
\* the admission controller's part of a frame drawn at time t
Admission(t) ==
    LET samples == PushSample(fpsSamples, frameRate)
        due == CheckDue(t, samples)
        userMaxRibbons == settingsRef.maxVisibleRibbons
        c == IF due THEN AdjustRibbons(currentMaxRibbons, samples, userMaxRibbons)
             ELSE currentMaxRibbons
    IN  /\ fpsSamples' = samples
        /\ lastFpsCheck' = IF due THEN t ELSE lastFpsCheck
        /\ currentMaxRibbons' = c
        /\ effectiveMaxRibbons' = EffectiveMax(c, userMaxRibbons)
        /\ lastCheck' = [kind |-> CheckKind(due, samples),
                         before |-> currentMaxRibbons,
                         userMax |-> userMaxRibbons]

DrawFrame ==
    \E dt \in FrameDts :
        LET t == now + dt
        IN  /\ t <= MaxNow
            /\ now' = t
            /\ Admission(t)
            /\ UNCHANGED <<settingsRef, frameRate, loadChanges, settingsChanges>>
            /\ UNCHANGED notAdm

\* the effect of lines 94-97: the user moved the ribbon slider
SettingsChange ==
    \E v \in RIBBON_STEPS :
        /\ v # settingsRef.maxVisibleRibbons
        /\ settingsChanges < MaxSettingsChanges
        /\ settingsChanges' = settingsChanges + 1
        /\ settingsRef' = [settingsRef EXCEPT !.maxVisibleRibbons = v]
        /\ UNCHANGED <<currentMaxRibbons, fpsSamples, lastFpsCheck,
                       effectiveMaxRibbons, frameRate, loadChanges, lastCheck, now>>
        /\ UNCHANGED notAdm

\* the machine got slower or faster: p.frameRate() reports another rate
LoadChange ==
    \E f \in FpsLevels :
        /\ f # frameRate
        /\ loadChanges < MaxLoadChanges
        /\ frameRate' = f
        /\ loadChanges' = loadChanges + 1
        /\ UNCHANGED <<settingsRef, currentMaxRibbons, fpsSamples, lastFpsCheck,
                       effectiveMaxRibbons, lastCheck, now, settingsChanges>>
        /\ UNCHANGED notAdm

NextAdm == DrawFrame \/ SettingsChange \/ LoadChange

SpecAdm == InitAdm /\ [][NextAdm]_vars

(***************************************************************************)
(* emotions.ts: 32-bit integer arithmetic                                  *)
(*                                                                         *)
(* A 32-bit word is the pair <<hi, lo>> of its 16-bit halves, so that no   *)
(* intermediate value leaves TLC's integers.  The words are the two's      *)
(* complement bit patterns of JavaScript's int32 values.                   *)
(***************************************************************************)
W16 == 65536
W8 == 256

RECURSIVE BitXor(_, _)
BitXor(a, b) ==
    IF a = 0 THEN b
    ELSE IF b = 0 THEN a
    ELSE (((a % 2) + (b % 2)) % 2) + (2 * BitXor(a \div 2, b \div 2))

RECURSIVE BitOr(_, _)
BitOr(a, b) ==
    IF a = 0 THEN b
    ELSE IF b = 0 THEN a
    ELSE (IF (a % 2) = 1 \/ (b % 2) = 1 THEN 1 ELSE 0) + (2 * BitOr(a \div 2, b \div 2))

\* 2^k for the shift amounts the generator uses
Pow2(k) == CASE k = 7 -> 128 [] k = 14 -> 16384 [] k = 15 -> 32768

\* a ^ b
U32Xor(a, b) == <<BitXor(a[1], b[1]), BitXor(a[2], b[2])>>
\* c | a for a constant c below 2^16
U32OrLow(c, a) == <<a[1], BitOr(c, a[2])>>
\* a >>> k, 0 < k < 16
U32Shr(a, k) ==
    <<a[1] \div Pow2(k), ((a[1] % Pow2(k)) * (W16 \div Pow2(k))) + (a[2] \div Pow2(k))>>
\* (a + b) | 0
U32Add(a, b) ==
    LET lo == a[2] + b[2]
    IN  <<(a[1] + b[1] + (lo \div W16)) % W16, lo % W16>>
\* x * y mod 2^16 for 16-bit x, y
MulMod16(x, y) == (((x % W8) * y) + ((((x \div W8) * y) % W8) * W8)) % W16
\* Math.imul(a, b): the low 32 bits of the product
U32Mul(a, b) ==
    LET p0 == (a[2] % W8) * b[2]          \* below 2^24
        p1 == (a[2] \div W8) * b[2]       \* below 2^24, weighs 2^8
        low == p0 + ((p1 % W8) * W8)
        lolo == <<((p1 \div W8) + (low \div W16)) % W16, low % W16>>
        cross == (MulMod16(a[1], b[2]) + MulMod16(a[2], b[1])) % W16
    IN  <<(lolo[1] + cross) % W16, lolo[2]>>

(***************************************************************************)
(* emotions.ts: EMOTIONS.  Amplitudes and all y values are in units of     *)
(* 1/YSCALE; label and flowSpeed play no part in the path.                 *)
(***************************************************************************)
YSCALE == 10000

EMOTIONS == <<
    [id |-> "joy",        color |-> "#facc15", controlPoints |-> <<7, 8>>,   amplitude |-> 2500],
    [id |-> "calm",       color |-> "#2dd4bf", controlPoints |-> <<3, 4>>,   amplitude |-> 1800],
    [id |-> "love",       color |-> "#f472b6", controlPoints |-> <<5, 6>>,   amplitude |-> 2000],
    [id |-> "hope",       color |-> "#38bdf8", controlPoints |-> <<5, 6>>,   amplitude |-> 2000],
    [id |-> "melancholy", color |-> "#8b5cf6", controlPoints |-> <<4, 5>>,   amplitude |-> 1800],
    [id |-> "anxious",    color |-> "#fb923c", controlPoints |-> <<10, 12>>, amplitude |-> 3000],
    [id |-> "angry",      color |-> "#ef4444", controlPoints |-> <<12, 14>>, amplitude |-> 3500],
    [id |-> "worn",       color |-> "#94a3b8", controlPoints |-> <<3, 4>>,   amplitude |-> 1200] >>

EmotionIds == {EMOTIONS[i].id : i \in 1..Len(EMOTIONS)}
\* EMOTIONS.find((e) => e.id === emotionId)
FindEmotion(emotionId) == EMOTIONS[CHOOSE i \in 1..Len(EMOTIONS) : EMOTIONS[i].id = emotionId]

(***************************************************************************)
(* emotions.ts: createSeededRng (Mulberry32).  A seed string is the        *)
(* sequence of its char codes.                                             *)
(***************************************************************************)
\* hash = ((hash << 5) - hash) + char; hash = hash & hash
HashStep(hash, char) ==
    LET lo == (hash[2] * 31) + char
    IN  <<((hash[1] * 31) + (lo \div W16)) % W16, lo % W16>>

RECURSIVE HashSeed(_, _)
HashSeed(hash, seed) ==
    IF seed = <<>> THEN hash ELSE HashSeed(HashStep(hash, Head(seed)), Tail(seed))

\* a generator that goes on from where the last generator stopped
createSeededRngShared(seed) == rngState
\* the state a new generator starts from: the closure's own hash variable
createSeededRng(seed) == HashSeed(<<0, 0>>, seed)

\* 0x6d2b79f5
MULBERRY_INC == <<27947, 31221>>

\* hash = (hash + 0x6d2b79f5) | 0: the generator's state after one more call
RngAdvance(hash) == U32Add(hash, MULBERRY_INC)

\* the 32-bit word a call returns (before the division by 4294967296), from
\* the state the call has advanced to
RngOutput(hash) ==
    LET t1 == U32Mul(U32Xor(hash, U32Shr(hash, 15)), U32OrLow(1, hash))
        t2 == U32Xor(U32Add(t1, U32Mul(U32Xor(t1, U32Shr(t1, 7)), U32OrLow(61, t1))), t1)
    IN  U32Xor(t2, U32Shr(t2, 14))

\* the state after n calls, and the word the n-th call returns (n >= 1)
RECURSIVE RngState(_, _)
RngState(hash, n) == IF n = 0 THEN hash ELSE RngState(RngAdvance(hash), n - 1)
RngDraw(hash, n) == RngOutput(RngState(hash, n))

(***************************************************************************)
(* emotions.ts: catmullRom and generateRibbonPath                          *)
(***************************************************************************)
OUTPUT_POINTS == 64
\* x values are in units of 1/XSCALE
XSCALE == 4096
Y_MIN == 800
Y_MAX == 9200

\* a draw over a range that is one wider
NumControlPointsWide(emotion, word) ==
    LET span == emotion.controlPoints[2] - emotion.controlPoints[1] + 2
    IN  emotion.controlPoints[1] + (((word[1] * span) + ((word[2] * span) \div W16)) \div W16)
\* minPoints + Math.floor(rng() * (maxPoints - minPoints + 1))
NumControlPoints(emotion, word) ==
    LET span == emotion.controlPoints[2] - emotion.controlPoints[1] + 1
    IN  emotion.controlPoints[1] + (((word[1] * span) + ((word[2] * span) \div W16)) \div W16)

\* (rng() - 0.5) * 2 * emotion.amplitude, on the upper 16 bits of the word
YOffset(emotion, word) == ((word[1] - (W16 \div 2)) * emotion.amplitude) \div (W16 \div 2)

\* the control points pushed by the loop: controlY[j] for j in 1..k (the
\* code's index j - 1) comes from the (j + 1)-th call of rng()
RECURSIVE ControlY(_, _, _, _)
ControlY(emotion, startY, hash, k) ==
    IF k = 0 THEN <<>>
    ELSE Append(ControlY(emotion, startY, hash, k - 1),
                startY + YOffset(emotion, RngDraw(hash, k + 1)))

\* catmullRom(p0, p1, p2, p3, t) for t = m / den, evaluated in Horner form
\* with every product brought back to the y scale
CatmullRom(p0, p1, p2, p3, m, den) ==
    LET c1 == p2 - p0
        c2 == (2 * p0) - (5 * p1) + (4 * p2) - p3
        c3 == (3 * p1) - p0 - (3 * p2) + p3
        h2 == c2 + ((c3 * m) \div den)
        h1 == c1 + ((h2 * m) \div den)
    IN  ((2 * p1) + ((h1 * m) \div den)) \div 2

\* a sample that is not clamped
ClampYNone(y) == y
\* Math.max(0.08, Math.min(0.92, y))
ClampY(y) == Max(Y_MIN, Min(Y_MAX, y))

\* a % b of JavaScript: the sign of the result is that of a
JsRem(a, b) == IF a >= 0 THEN a % b ELSE -((-a) % b)

\* the indices i0, i1, i2, i3 of the four control points of sample i, for
\* idx = Math.floor(t * numControlPoints), t = i / outputPoints
ControlIndices(k, i) ==
    LET idx == (i * k) \div OUTPUT_POINTS
    IN  <<JsRem(JsRem(idx - 1, k) + k, k), JsRem(idx, k), JsRem(idx + 1, k),
          JsRem(idx + 2, k)>>

\* one sample of the loop: the point pushed for index i in 0..outputPoints-1
PathPoint(controlY, k, i) ==
    LET m == (i * k) % OUTPUT_POINTS
        ix == ControlIndices(k, i)
    IN  <<(i * XSCALE) \div OUTPUT_POINTS,
          ClampY(CatmullRom(controlY[ix[1] + 1], controlY[ix[2] + 1], controlY[ix[3] + 1],
                            controlY[ix[4] + 1], m, OUTPUT_POINTS))>>

\* generateRibbonPath(emotion, startY, seed), from the generator state `hash`
\* that createSeededRng(seed) returned
PathFrom(emotion, startY, hash) ==
    LET k == NumControlPoints(emotion, RngDraw(hash, 1))
        controlY == ControlY(emotion, startY, hash, k)
    IN  [n \in 1..OUTPUT_POINTS |-> PathPoint(controlY, k, n - 1)]

generateRibbonPath(emotion, startY, seed) == PathFrom(emotion, startY, createSeededRng(seed))

\* the generator's state when generateRibbonPath returns: rng() has been
\* called once for the number of control points and once for each of them
RngAfterPath(emotion, hash) ==
    RngState(hash, 1 + NumControlPoints(emotion, RngDraw(hash, 1)))

(***************************************************************************)
(* The path synthesizer as a state machine: callers call                   *)
(* generateRibbonPath again and again, with arguments from small sets.     *)
(***************************************************************************)
\* a profile with few and one with many control points
PathEmotions == {"calm", "angry"}
\* values of startY, in [0.08, 0.92] as getRandomStartY returns them
StartYs == {3000, 9000}
\* seed strings (feeling ids): "f1", whose first draw is 0.306, and "f3",
\* whose first draw is 0.895
Seeds == {<<102, 49>>, <<102, 51>>}

\* values of startY a caller may pass: those, and one below and one above
\* the band
PathStartYs == StartYs \cup {-5000, 20000}

PathArgs == PathEmotions \X PathStartYs \X Seeds

InitPath ==
    /\ rngState = <<0, 0>>
    /\ calls = 0
    /\ lastCall = NoCall
    /\ memo = [a \in PathArgs |-> <<>>]
    /\ IdleAdm
    /\ now = 0
    /\ IdleServer
    /\ IdleFrame
    /\ IdleHome
    /\ IdleRace
    /\ IdleGpu
    /\ IdleClient
    /\ IdleParticles

\* one call of generateRibbonPath(emotion, startY, seed), lines 125-168
Generate ==
    \E a \in PathArgs :
        LET emotion == FindEmotion(a[1])
            hash == createSeededRng(a[3])
            path == PathFrom(emotion, a[2], hash)
        IN  /\ calls < MaxCalls
            /\ calls' = calls + 1
            /\ rngState' = RngAfterPath(emotion, hash)
            /\ lastCall' = [emotionId |-> a[1], startY |-> a[2], seed |-> a[3],
                            path |-> path, repeat |-> memo[a] # <<>>]
            /\ memo' = IF memo[a] = <<>> THEN [memo EXCEPT ![a] = path] ELSE memo
            /\ UNCHANGED notPath

NextPath == Generate

SpecPath == InitPath /\ [][NextPath]_vars


(***************************************************************************)
(* feelingsState.ts, route.ts, migrate-ribbon-paths.ts: the feelings API   *)
(* on the key-value store, and the migration script                        *)
(***************************************************************************)
\* 7 * 24 * 60 * 60 * 1000
FEELINGS_TTL == 604800000
\* 60 * 60
RATE_LIMIT_SECONDS == 3600
RATE_LIMIT_MS == RATE_LIMIT_SECONDS * 1000

\* the addresses getClientIP returns
ClientIPs == {"ip1"}
\* the emotionId of a request body: known ones and one EMOTIONS does not have
RequestEmotionIds == PathEmotions \cup {"unknown"}
\* by how much the clock moves between two requests
TickSteps == {RATE_LIMIT_MS, FEELINGS_TTL}
\* the clock stays below this
SrvHorizon == 3 * FEELINGS_TTL

\* uuidv4(): the n-th feeling gets the id "f<n>" and the update hash "u<n>"
Uuid(n) == <<102, 48 + n>>
UpdateHash(n) == <<117, 48 + n>>
FeelingIds == {Uuid(n) : n \in 1..MaxOps}
\* the updateHash of a request body: none, one that was issued, or one that
\* was not
RequestHashes == {<<>>} \cup {UpdateHash(n) : n \in 1..(uuidCount + 1)}

\* lastTime && Date.now() - lastTime < RATE_LIMIT_SECONDS * 1000
RateLimited(ip, t) == kvRate[ip] # 0 /\ t - kvRate[ip] < RATE_LIMIT_MS

\* (stored || []).filter((f) => f.expiresAt > now)
Live(stored, t) == SelectSeq(stored, LAMBDA f : f.expiresAt > t)

\* feelings.findIndex((f) => f.updateHash === updateHash), 0 for -1
FindIndex(list, updateHash) ==
    IF \E i \in 1..Len(list) : list[i].updateHash = updateHash
    THEN CHOOSE i \in 1..Len(list) :
             /\ list[i].updateHash = updateHash
             /\ \A j \in 1..(i - 1) : list[j].updateHash # updateHash
    ELSE 0

RECURSIVE SumY(_)
SumY(path) == IF path = <<>> THEN 0 ELSE Head(path)[2] + SumY(Tail(path))

\* getAverageY of the migration script
getAverageY(path) == IF path = <<>> THEN YSCALE \div 2 ELSE SumY(path) \div Len(path)

\* the body of the migration loop for one feeling
MigrateFeeling(f) ==
    IF f.emotionId \notin EmotionIds THEN f
    ELSE [f EXCEPT !.path = generateRibbonPath(FindEmotion(f.emotionId),
                                               getAverageY(f.path), f.id)]

\* a PUT that forgets to move expiresAt
RefreshedCreatedAtOnly(f, emotion, path, t) ==
    [f EXCEPT !.emotionId = emotion.id, !.color = emotion.color, !.path = path,
              !.createdAt = t]
\* { ...feelings[idx], emotionId, color, path, createdAt: now, expiresAt: now +
\* FEELINGS_TTL }, route.ts lines 257-264 (and 234-240 in development)
Refreshed(f, emotion, path, t) ==
    [f EXCEPT !.emotionId = emotion.id, !.color = emotion.color, !.path = path,
              !.createdAt = t, !.expiresAt = t + FEELINGS_TTL]

\* how many feelings the seed route makes (count = 5000)
SeedCount == 2
\* the ages the seed route draws: Math.random() * sevenDays
SeedAges == {0, FEELINGS_TTL - 1}

\* the n-th feeling of the seed route, seed/route.ts lines 28-46: it has no
\* updateHash, and generateRibbonPath gets a number as seed, whose length
\* is undefined, so the hash loop does not run
SeedFeeling(emotion, path, age, n, t) ==
    [id |-> Uuid(n), emotionId |-> emotion.id, color |-> emotion.color,
     path |-> path,
     createdAt |-> t - age, expiresAt |-> (t - age) + FEELINGS_TTL,
     updateHash |-> <<>>]

\* the feeling a POST at time t builds, route.ts lines 130-147
NewFeeling(emotion, startY, n, t) ==
    [id |-> Uuid(n), emotionId |-> emotion.id, color |-> emotion.color,
     path |-> generateRibbonPath(emotion, startY, Uuid(n)),
     createdAt |-> t, expiresAt |-> t + FEELINGS_TTL,
     updateHash |-> UpdateHash(n)]

\* history: the path first stored for an id and an emotionId
Remember(first, id, emotionId, path) ==
    IF first[<<id, emotionId>>] = <<>> THEN [first EXCEPT ![<<id, emotionId>>] = path]
    ELSE first

\* a handler returns without having written anything
Respond(op, status) ==
    /\ lastResp' = [op |-> op, status |-> status]
    /\ UNCHANGED <<kvFeelings, kvRate, uuidCount, firstPath, now, ops>>

InitServer ==
    /\ kvFeelings = <<>>
    /\ kvRate = [ip \in ClientIPs |-> 0]
    /\ uuidCount = 0
    /\ lastResp = NoResp
    /\ firstPath = [k \in FeelingIds \X PathEmotions |-> <<>>]
    /\ ops = 0
    /\ now = 1
    /\ IdleAdm
    /\ IdlePath
    /\ IdleFrame
    /\ IdleHome
    /\ IdleRace
    /\ IdleGpu
    /\ IdleClient
    /\ IdleParticles

\* POST /api/feelings, route.ts lines 92-174, for one request; startY is
\* what getRandomStartY returns
PostHandler(ip, emotionId, startY) ==
    IF emotionId \notin EmotionIds THEN Respond("POST", 400)
    ELSE IF RateLimited(ip, now) THEN Respond("POST", 429)
    ELSE LET emotion == FindEmotion(emotionId)
             id == Uuid(uuidCount + 1)
             path == generateRibbonPath(emotion, startY, id)
             feeling == [id |-> id, emotionId |-> emotion.id,
                         color |-> emotion.color, path |-> path,
                         createdAt |-> now, expiresAt |-> now + FEELINGS_TTL,
                         updateHash |-> UpdateHash(uuidCount + 1)]
         IN  /\ ops < MaxOps
             /\ ops' = ops + 1
             /\ uuidCount' = uuidCount + 1
             /\ kvFeelings' = Append(Live(kvFeelings, now), feeling)
             /\ kvRate' = [kvRate EXCEPT ![ip] = now]
             /\ firstPath' = Remember(firstPath, id, emotionId, path)
             /\ lastResp' = [op |-> "POST", status |-> 200]
             /\ UNCHANGED now

\* a POST arrives and is handled
Post ==
    \E ip \in ClientIPs, emotionId \in RequestEmotionIds, startY \in StartYs :
        /\ PostHandler(ip, emotionId, startY)
        /\ UNCHANGED notServer

\* PUT /api/feelings, route.ts lines 181-287, for one request
PutHandler(ip, updateHash, emotionId, startY) ==
    IF updateHash = <<>> THEN Respond("PUT", 400)
    ELSE IF emotionId \notin EmotionIds THEN Respond("PUT", 400)
    ELSE IF RateLimited(ip, now) THEN Respond("PUT", 429)
    ELSE LET emotion == FindEmotion(emotionId)
             live == Live(kvFeelings, now)
             idx == FindIndex(live, updateHash)
             path == generateRibbonPath(emotion, startY, live[idx].id)
         IN  IF idx = 0 THEN Respond("PUT", 404)
             ELSE /\ ops < MaxOps
                  /\ ops' = ops + 1
                  /\ kvFeelings' =
                         [live EXCEPT ![idx] = Refreshed(@, emotion, path, now)]
                  /\ kvRate' = [kvRate EXCEPT ![ip] = now]
                  /\ firstPath' = Remember(firstPath, live[idx].id, emotionId, path)
                  /\ lastResp' = [op |-> "PUT", status |-> 200]
                  /\ UNCHANGED <<uuidCount, now>>

\* a PUT arrives and is handled
Put ==
    \E ip \in ClientIPs, updateHash \in RequestHashes,
       emotionId \in RequestEmotionIds, startY \in StartYs :
        /\ PutHandler(ip, updateHash, emotionId, startY)
        /\ UNCHANGED notServer

\* one run of scripts/migrate-ribbon-paths.ts, lines 122-180
Migrate ==
    /\ ops < MaxOps
    /\ ops' = ops + 1
    /\ kvFeelings' = IF kvFeelings = <<>> THEN kvFeelings
                     ELSE [i \in 1..Len(kvFeelings) |-> MigrateFeeling(kvFeelings[i])]
    /\ lastResp' = [op |-> "migrate", status |-> 0]
    /\ UNCHANGED <<kvRate, uuidCount, firstPath, now>>
    /\ UNCHANGED notServer

\* time passes between two requests
Tick ==
    \E dt \in TickSteps :
        /\ ops < MaxOps
        /\ now + dt <= SrvHorizon
        /\ now' = now + dt
        /\ ops' = ops + 1
        /\ UNCHANGED <<kvFeelings, kvRate, uuidCount, lastResp, firstPath>>
        /\ UNCHANGED notServer

NextServer == Post \/ Put \/ Migrate \/ Tick

SpecServer == InitServer /\ [][NextServer]_vars

(***************************************************************************)
(* The handlers in development without KV (isDev && !hasKV): the store is  *)
(* the array devFeelings and the map devRateLimits of feelingsState.ts,    *)
(* held here in kvFeelings and kvRate.  These branches have no await       *)
(* between the check and the writes.                                       *)
(***************************************************************************)
\* how many requests and clock steps the development store sees
MaxDevOps == 3

\* the updateHash of a request body: none, one of a stored feeling, or one
\* that was not issued
DevRequestHashes ==
    {<<>>, UpdateHash(uuidCount + 1)}
        \cup {kvFeelings[i].updateHash : i \in 1..Len(kvFeelings)}

\* what getRandomStartY returns to the seed route
SeedStartYs == {5000}

\* POST /api/feelings, route.ts lines 92-153: addDevFeeling pushes onto the
\* array as it is
DevPost ==
    \E ip \in ClientIPs, emotionId \in RequestEmotionIds, startY \in StartYs :
        /\ IF emotionId \notin EmotionIds THEN Respond("POST", 400)
           ELSE IF RateLimited(ip, now) THEN Respond("POST", 429)
           ELSE /\ ops < MaxDevOps
                /\ ops' = ops + 1
                /\ uuidCount' = uuidCount + 1
                /\ kvFeelings' = Append(kvFeelings,
                                        NewFeeling(FindEmotion(emotionId), startY,
                                                   uuidCount + 1, now))
                /\ kvRate' = [kvRate EXCEPT ![ip] = now]
                /\ lastResp' = [op |-> "POST", status |-> 200]
                /\ UNCHANGED <<firstPath, now>>
        /\ UNCHANGED notServer

\* PUT /api/feelings, route.ts lines 181-244 and 275-279: getDevFeelings drops
\* the expired feelings from the array, updateDevFeeling assigns in place
DevPut ==
    \E ip \in ClientIPs, updateHash \in DevRequestHashes,
       emotionId \in RequestEmotionIds, startY \in StartYs :
        /\ IF updateHash = <<>> THEN Respond("PUT", 400)
           ELSE IF emotionId \notin EmotionIds THEN Respond("PUT", 400)
           ELSE IF RateLimited(ip, now) THEN Respond("PUT", 429)
           ELSE LET emotion == FindEmotion(emotionId)
                    live == Live(kvFeelings, now)
                    idx == FindIndex(live, updateHash)
                IN  /\ ops < MaxDevOps
                    /\ ops' = ops + 1
                    /\ IF idx = 0
                       THEN /\ kvFeelings' = live
                            /\ lastResp' = [op |-> "PUT", status |-> 404]
                            /\ UNCHANGED kvRate
                       ELSE /\ kvFeelings' =
                                 [live EXCEPT ![idx] =
                                     Refreshed(@, emotion,
                                               generateRibbonPath(emotion, startY, live[idx].id),
                                               now)]
                            /\ kvRate' = [kvRate EXCEPT ![ip] = now]
                            /\ lastResp' = [op |-> "PUT", status |-> 200]
                    /\ UNCHANGED <<uuidCount, firstPath, now>>
        /\ UNCHANGED notServer

\* POST /api/feelings/seed in development, seed/route.ts lines 13-59: the
\* array is cleared and filled with SeedCount feelings of random age
Seed ==
    /\ ops < MaxDevOps
    /\ \E emotionId \in PathEmotions, startY \in SeedStartYs :
          LET emotion == FindEmotion(emotionId)
              path == generateRibbonPath(emotion, startY, <<>>)
          IN  \E ages \in [1..SeedCount -> SeedAges] :
                 kvFeelings' = [i \in 1..SeedCount |->
                                   SeedFeeling(emotion, path, ages[i], uuidCount + i, now)]
    /\ ops' = ops + 1
    /\ uuidCount' = uuidCount + SeedCount
    /\ lastResp' = [op |-> "seed", status |-> 200]
    /\ UNCHANGED <<kvRate, firstPath, now>>
    /\ UNCHANGED notServer

\* time passes between two requests
DevTick ==
    \E dt \in TickSteps :
        /\ ops < MaxDevOps
        /\ now' = now + dt
        /\ ops' = ops + 1
        /\ UNCHANGED <<kvFeelings, kvRate, uuidCount, lastResp, firstPath>>
        /\ UNCHANGED notServer

NextDev == DevPost \/ DevPut \/ Seed \/ DevTick

SpecDev == InitServer /\ [][NextDev]_vars

(***************************************************************************)
(* The handlers with the KV store (hasKV), running concurrently: a handler *)
(* gives way to the others at each await, so a step is the code from one   *)
(* await kv.get / kv.set to the next.                                      *)
(***************************************************************************)
\* how many requests arrive
MaxRequests == 2
\* how many times the clock moves while they are handled
MaxRaceTicks == 1

Requests == 1..MaxRequests
\* the addresses the concurrent requests come from: the one that posted the
\* first feeling and one that has not posted
RaceIPs == {"ip1", "ip2"}

\* a request that has not arrived
IdleReq ==
    [kind |-> "none", pc |-> "idle", ip |-> "", emotionId |-> "",
     updateHash |-> <<>>, t |-> 0, feeling |-> <<>>, list |-> <<>>,
     status |-> 0, wrote |-> FALSE, at |-> 0]

\* the store an hour after the first feeling was posted from ip1, or a moment
\* after it
InitRace ==
    /\ kvFeelings = <<NewFeeling(FindEmotion("calm"), 3000, 1, 1)>>
    /\ kvRate = [ip \in RaceIPs |-> IF ip = "ip1" THEN 1 ELSE 0]
    /\ uuidCount = 1
    /\ now \in {2, 1 + RATE_LIMIT_MS}
    /\ lastResp = NoResp
    /\ firstPath = <<>>
    /\ ops = 0
    /\ reqs = [r \in Requests |-> IdleReq]
    /\ IdleAdm
    /\ IdlePath
    /\ IdleFrame
    /\ IdleHome
    /\ IdleGpu
    /\ IdleClient
    /\ IdleParticles

\* the handler of request r returns
Done(r, status) ==
    reqs' = [reqs EXCEPT ![r] = [@ EXCEPT !.pc = "done", !.status = status, !.at = now]]

\* a request arrives: await request.json() and the checks of the body,
\* route.ts lines 94-104 (POST) and 183-197 (PUT)
Arrive(r) ==
    /\ reqs[r].pc = "idle"
    /\ \A q \in Requests : q < r => reqs[q].pc # "idle"
    /\ \E kind \in {"POST", "PUT"}, ip \in RaceIPs,
          emotionId \in RequestEmotionIds, updateHash \in RequestHashes :
          LET body == [reqs[r] EXCEPT !.kind = kind, !.ip = ip,
                                      !.emotionId = emotionId,
                                      !.updateHash = IF kind = "PUT" THEN updateHash
                                                     ELSE <<>>]
              bad == \/ kind = "PUT" /\ updateHash = <<>>
                     \/ emotionId \notin EmotionIds
          IN  /\ kind = "POST" => updateHash = <<>>
              /\ reqs' = [reqs EXCEPT ![r] =
                            IF bad THEN [body EXCEPT !.pc = "done", !.status = 400,
                                                     !.at = now]
                            ELSE [body EXCEPT !.pc = "rate"]]
    /\ UNCHANGED <<srvVars, now>>
    /\ UNCHANGED <<admVars, pathVars, frameVars, homeVars, gpuVars, clientVars, particleVars>>

\* await kv.get(rateLimitKey) returns: the check, and for a POST the new
\* feeling, route.ts lines 117-147 (POST) and 210-223 (PUT)
CheckRate(r) ==
    /\ reqs[r].pc = "rate"
    /\ IF RateLimited(reqs[r].ip, now)
       THEN /\ Done(r, 429)
            /\ UNCHANGED uuidCount
       ELSE IF reqs[r].kind = "POST"
       THEN \E startY \in StartYs :
              /\ uuidCount' = uuidCount + 1
              /\ reqs' = [reqs EXCEPT ![r] =
                            [@ EXCEPT !.pc = "get", !.t = now,
                                      !.feeling = NewFeeling(FindEmotion(reqs[r].emotionId),
                                                             startY, uuidCount + 1, now)]]
       ELSE /\ reqs' = [reqs EXCEPT ![r] = [@ EXCEPT !.pc = "get", !.t = now]]
            /\ UNCHANGED uuidCount
    /\ UNCHANGED <<kvFeelings, kvRate, lastResp, firstPath, ops, now>>
    /\ UNCHANGED <<admVars, pathVars, frameVars, homeVars, gpuVars, clientVars, particleVars>>

\* await kv.get(FEELINGS_KEY) returns: the new list, route.ts lines 155-157
\* (POST) and 247-265, 275-277 (PUT)
GetFeelings(r) ==
    /\ reqs[r].pc = "get"
    /\ LET live == Live(kvFeelings, reqs[r].t)
           idx == FindIndex(live, reqs[r].updateHash)
           emotion == FindEmotion(reqs[r].emotionId)
       IN  IF reqs[r].kind = "POST"
           THEN reqs' = [reqs EXCEPT ![r] =
                           [@ EXCEPT !.pc = "setFeelings",
                                     !.list = Append(live, reqs[r].feeling)]]
           ELSE IF idx = 0 THEN Done(r, 404)
           ELSE \E startY \in StartYs :
                  reqs' = [reqs EXCEPT ![r] =
                     [@ EXCEPT !.pc = "setFeelings",
                               !.list = [live EXCEPT ![idx] =
                                   Refreshed(@, emotion,
                                             generateRibbonPath(emotion, startY, live[idx].id),
                                             reqs[r].t)]]]
    /\ UNCHANGED <<srvVars, now>>
    /\ UNCHANGED <<admVars, pathVars, frameVars, homeVars, gpuVars, clientVars, particleVars>>

\* await kv.set(FEELINGS_KEY, feelings), route.ts lines 160 and 268
SetFeelings(r) ==
    /\ reqs[r].pc = "setFeelings"
    /\ kvFeelings' = reqs[r].list
    /\ reqs' = [reqs EXCEPT ![r] = [@ EXCEPT !.pc = "setRate", !.wrote = TRUE]]
    /\ UNCHANGED <<kvRate, uuidCount, lastResp, firstPath, ops, now>>
    /\ UNCHANGED <<admVars, pathVars, frameVars, homeVars, gpuVars, clientVars, particleVars>>

\* await kv.set(rateLimitKey, now, { ex }) and the response, route.ts lines
\* 163-166 and 271-279
SetRate(r) ==
    /\ reqs[r].pc = "setRate"
    /\ kvRate' = [kvRate EXCEPT ![reqs[r].ip] = reqs[r].t]
    /\ Done(r, 200)
    /\ UNCHANGED <<kvFeelings, uuidCount, lastResp, firstPath, ops, now>>
    /\ UNCHANGED <<admVars, pathVars, frameVars, homeVars, gpuVars, clientVars, particleVars>>

\* time passes while requests are being handled
TickRace ==
    \E dt \in TickSteps :
        /\ ops < MaxRaceTicks
        /\ ops' = ops + 1
        /\ now' = now + dt
        /\ UNCHANGED <<kvFeelings, kvRate, uuidCount, lastResp, firstPath, reqs>>
        /\ UNCHANGED <<admVars, pathVars, frameVars, homeVars, gpuVars, clientVars, particleVars>>

NextRace ==
    \/ \E r \in Requests : Arrive(r)
    \/ \E r \in Requests : CheckRate(r)
    \/ \E r \in Requests : GetFeelings(r)
    \/ \E r \in Requests : SetFeelings(r)
    \/ \E r \in Requests : SetRate(r)
    \/ TickRace

SpecRace == InitRace /\ [][NextRace]_vars

(***************************************************************************)
(* The page as a client of the feelings API with the KV store:             *)
(* fetchFeelings and handleEmotionSelect of part_002 against GET, POST and *)
(* PUT of route.ts.  A request, its handler and what the page does with    *)
(* the response are one step; other visitors (and other tabs of this one)  *)
(* are the actions Post and Put.                                           *)
(***************************************************************************)
\* the address of this visitor
HomeIP == "ip1"
\* what getRandomStartY returns for the requests of this page
HomeStartYs == {3000}
\* the request bodies of the other visitors: emotionId and updateHash
VisitorEmotionIds == {"angry"}
VisitorHashes == {UpdateHash(n) : n \in 1..uuidCount}

\* ({ updateHash, emotionId, expiresAt, ...rest }) => rest, route.ts line 59
PublicFeeling(f) ==
    [id |-> f.id, color |-> f.color, path |-> f.path, createdAt |-> f.createdAt]

PublicFeelings(list) ==
    IF list = <<>> THEN <<>>
    ELSE [i \in 1..Len(list) |-> PublicFeeling(list[i])]

\* publicFeelings.map(f => f.id).join(','), as char codes
RECURSIVE JoinIds(_)
JoinIds(list) ==
    IF list = <<>> THEN <<>>
    ELSE IF Len(list) = 1 THEN list[1].id
    ELSE list[1].id \o <<44>> \o JoinIds(Tail(list))

\* `${publicFeelings.length}:${ids.join(',')}`, route.ts line 62, as char
\* codes (the model's lists have fewer than ten feelings)
EtagSource(publicFeelings) ==
    <<48 + Len(publicFeelings), 58>> \o JoinIds(publicFeelings)

\* Math.abs(hash) of a 32-bit integer held as the two 16-bit halves of its
\* two's complement, as two halves again
Abs32(hash) ==
    IF hash[1] < W16 \div 2 THEN hash
    ELSE IF hash[2] = 0 THEN <<W16 - hash[1], 0>>
    ELSE <<(W16 - 1) - hash[1], W16 - hash[2]>>

\* simpleHash, route.ts lines 25-33: the loop is the one of createSeededRng;
\* toString(36) is one-to-one, so the number stands for its digits
simpleHash(str) == Abs32(HashSeed(<<0, 0>>, str))

\* GET /api/feelings with the KV store at time t, route.ts lines 43-81
GetHandler(ifNoneMatch, t) ==
    LET publicFeelings == PublicFeelings(Live(kvFeelings, t))
        etag == simpleHash(EtagSource(publicFeelings))
    IN  IF ifNoneMatch = etag
        THEN [status |-> 304, etag |-> etag, feelings |-> <<>>,
              publicFeelings |-> publicFeelings]
        ELSE [status |-> 200, etag |-> etag, feelings |-> publicFeelings,
              publicFeelings |-> publicFeelings]

InitClient ==
    /\ kvFeelings = <<>>
    /\ kvRate = [ip \in ClientIPs |-> 0]
    /\ uuidCount = 0
    /\ lastResp = NoResp
    /\ firstPath = [k \in FeelingIds \X PathEmotions |-> <<>>]
    /\ ops = 0
    /\ now = 1
    /\ storedHash = <<>>
    /\ homeFeelings = <<>>
    /\ etagRef = <<>>
    /\ etagIssuedFor = <<>>
    /\ lastFetch = NoFetch
    /\ lastSelect = 0
    /\ IdleAdm
    /\ IdlePath
    /\ IdleFrame
    /\ IdleHome
    /\ IdleRace
    /\ IdleGpu
    /\ IdleParticles

\* part_002 lines 215-244: one poll. The header If-None-Match is sent only
\* if etagRef.current is set; an ETag is never the empty string.
fetchFeelings ==
    LET res == GetHandler(etagRef, now)
    IN  /\ lastFetch' = [status |-> res.status, publicFeelings |-> res.publicFeelings]
        /\ IF res.status = 304
           THEN UNCHANGED <<etagRef, etagIssuedFor, homeFeelings>>
           ELSE /\ etagRef' = res.etag
                /\ etagIssuedFor' = res.feelings
                /\ homeFeelings' = res.feelings
        /\ UNCHANGED <<storedHash, lastSelect>>
        /\ UNCHANGED <<srvVars, now>>
        /\ UNCHANGED <<admVars, pathVars, frameVars, homeVars, reqs, gpuVars, particleVars>>

\* prev.map((f) => f.id === data.feeling.id ? data.feeling : f)
ReplaceById(prev, feeling) ==
    IF prev = <<>> THEN <<>>
    ELSE [i \in 1..Len(prev) |-> IF prev[i].id = feeling.id THEN feeling ELSE prev[i]]

\* part_002 lines 282-328: the visitor picks an emotion of the picker
handleEmotionSelect ==
    \E emotionId \in PathEmotions, startY \in HomeStartYs :
        LET isUpdate == storedHash # <<>>
        IN  /\ IF isUpdate THEN PutHandler(HomeIP, storedHash, emotionId, startY)
                           ELSE PostHandler(HomeIP, emotionId, startY)
            /\ lastSelect' = lastResp'.status
            /\ IF lastResp'.status = 200
               THEN IF isUpdate
                    THEN /\ homeFeelings' =
                               ReplaceById(homeFeelings,
                                           kvFeelings'[FindIndex(kvFeelings', storedHash)])
                         /\ UNCHANGED storedHash
                    ELSE /\ storedHash' = kvFeelings'[Len(kvFeelings')].updateHash
                         /\ homeFeelings' = Append(homeFeelings, kvFeelings'[Len(kvFeelings')])
               ELSE UNCHANGED <<storedHash, homeFeelings>>
            /\ UNCHANGED <<etagRef, etagIssuedFor, lastFetch>>
            /\ UNCHANGED <<admVars, pathVars, frameVars, homeVars, reqs, gpuVars, particleVars>>

\* another visitor posts a feeling
VisitorPost ==
    \E ip \in ClientIPs, emotionId \in VisitorEmotionIds, startY \in HomeStartYs :
        /\ PostHandler(ip, emotionId, startY)
        /\ UNCHANGED notServer

\* another visitor changes the emotion of a feeling
VisitorPut ==
    \E ip \in ClientIPs, updateHash \in VisitorHashes,
       emotionId \in VisitorEmotionIds, startY \in HomeStartYs :
        /\ PutHandler(ip, updateHash, emotionId, startY)
        /\ UNCHANGED notServer

NextClient == fetchFeelings \/ handleEmotionSelect \/ VisitorPost \/ VisitorPut \/ Tick

SpecClient == InitClient /\ [][NextClient]_vars

(***************************************************************************)
(* P5Canvas.tsx p.draw and WebGLRibbonRenderer render: the values the      *)
(* frame controller computes for one feeling.                              *)
(*                                                                         *)
(* Fractions (vitality, alpha, lengths, positions in screen widths) are    *)
(* in units of 1/Q.  A feeling's path is its number of samples, pathLen:   *)
(* the controller reads the length and copies the y values.  A feeling     *)
(* carries the fractional parts that seededRandom takes from               *)
(* Math.sin(hash) * 10000 and Math.sin(hash + 3) * 10000, fracs[1] and     *)
(* fracs[2], in units of 1/Q.                                              *)
(***************************************************************************)
Q == 10000
\* const SEVEN_DAYS_MS = 7 * 24 * 60 * 60 * 1000
SEVEN_DAYS_MS == 604800000
\* const fadeInDuration = 3000
FADE_IN_MS == 3000
\* staggerDelay = fi * 3000 (CPU)
CPU_STAGGER_MS == 3000
\* staggerDelay = Math.min(reverseIndex * 500, 60000) (GPU)
GPU_STAGGER_MS == 500
GPU_STAGGER_CAP_MS == 60000
\* Math.min(isFinite(maxVisibleRibbons) ? maxVisibleRibbons : 5000, 5000)
GPU_RIBBON_CAP == 5000
INSTANCE_FLOATS == 11
MAX_PATH_POINTS == 100
\* the age ratio is in units of 1/RATIO
RATIO == 1000000

\* a * b for fractions a, b in units of 1/Q
MulQ(a, b) == (a * b) \div Q
\* the least integer that is at least a / b, for a >= 0 and b > 0
CeilDiv(a, b) == (a + b - 1) \div b

\* const staggerDelay = fi * 3000, fi the 0-based index in the sorted list
CpuStaggerDelay(fi, total) == fi * CPU_STAGGER_MS
\* const reverseIndex = totalFeelings - 1 - fi;
\* const staggerDelay = Math.min(reverseIndex * 500, 60000)
GpuStaggerDelay(fi, total) == Min((total - 1 - fi) * GPU_STAGGER_MS, GPU_STAGGER_CAP_MS)

\* Math.min(1, age / SEVEN_DAYS_MS) for age >= 0, rounded up
AgeRatio(age) ==
    LET unit == SEVEN_DAYS_MS \div (RATIO \div 10)
    IN  IF age >= SEVEN_DAYS_MS THEN RATIO
        ELSE ((age \div unit) * 10) + CeilDiv((age % unit) * 10, unit)

\* Math.pow(x, 0.7) at the points x (in 1/RATIO) where the model tabulates it,
\* in units of 1/Q, rounded up
PowTable == <<
    <<0, 0>>, <<1, 1>>, <<10, 4>>, <<100, 16>>, <<1000, 80>>, <<10000, 399>>,
    <<50000, 1229>>, <<100000, 1996>>, <<250000, 3790>>, <<500000, 6156>>,
    <<750000, 8177>>, <<900000, 9290>>, <<1000000, 10000>> >>

\* Math.pow(ageRatio, 0.7): linear between the tabulated points
Pow07(x) ==
    LET i == CHOOSE j \in 1..(Len(PowTable) - 1) :
                 PowTable[j][1] <= x /\ (x < PowTable[j + 1][1] \/ j = Len(PowTable) - 1)
        x0 == PowTable[i][1]
        y0 == PowTable[i][2]
        x1 == PowTable[i + 1][1]
        y1 == PowTable[i + 1][2]
    IN  y0 + CeilDiv((x - x0) * (y1 - y0), x1 - x0)

\* a vitality that grows with age
VitalityRising(age) == Pow07(AgeRatio(age))
\* const vitality = 1 - Math.pow(ageRatio, 0.7)
Vitality(age) == Q - Pow07(AgeRatio(age))

\* alpha = age < fadeInDuration ? (age / fadeInDuration) * vitality : vitality
Alpha(age, vitality) ==
    IF age < FADE_IN_MS THEN (age * vitality) \div FADE_IN_MS ELSE vitality

\* a threshold that lets every alpha pass
AlphaTooLowNever(alpha) == FALSE
\* if (alpha < 0.01) continue
AlphaTooLow(alpha) == alpha * 100 < Q

\* seededRandom(seed, min, max), from the fractional part of Math.sin(seed) * 10000
seededRandom(frac, min, max) == min + MulQ(frac, max - min)

\* base * (lo + vitality * span)
Remap(base, lo, span, vitality) == MulQ(base, lo + MulQ(vitality, span))

\* the values a backend draws for a feeling from the hash of its id:
\* seededRandom(hash, ..), (hash + 1, ..), (hash + 2, ..), (hash + 3, ..);
\* lengths, glow and speed in 1/Q, thickness in 1/100 pixel
CpuBaseRibbonLength(f) == seededRandom(f.fracs[1], 5000, 12000)
CpuBaseThickness(f) == seededRandom(f.fracs[3], 1800, 4000)
CpuBaseGlowStrength(f) == seededRandom(f.fracs[4], 6000, 14000)
GpuBaseRibbonLength(f) == seededRandom(f.fracs[1], 4000, 9000)
GpuBaseThickness(f) == seededRandom(f.fracs[3], 1600, 3600)
BaseSpeedVariation(f) == seededRandom(f.fracs[2], 8500, 11500)

\* baseRibbonLength * (0.4 + vitality * 0.6)
EffectiveLength(base, vitality) == Remap(base, 4000, 6000, vitality)
\* baseThickness * (0.4 + vitality * 0.6)
EffectiveThickness(base, vitality) == Remap(base, 4000, 6000, vitality)
\* baseGlowStrength * (0.3 + vitality * 0.7)
GlowStrength(base, vitality) == Remap(base, 3000, 7000, vitality)
\* 0.05 + vitality * 0.15
ParticleSpawnRate(vitality) == 500 + MulQ(vitality, 1500)
\* a speed factor that ends at the base speed
SpeedFactorToBase(base, vitality) == Remap(base, 5000, 5000, vitality)
\* baseSpeedVariation * (0.5 + vitality * 0.7)
SpeedFactor(base, vitality) == Remap(base, 5000, 7000, vitality)

\* age * FLOW_SPEED * speedVariation, FLOW_SPEED = 0.00002
HeadTravel(age, speedVariation) ==
    LET a5 == age \div 5
    IN  ((a5 \div Q) * speedVariation) + (((a5 % Q) * speedVariation) \div Q)

\* a head that is not wrapped
HeadXNoWrap(headTravel, ribbonLength) == Q - headTravel
\* const headX = 1.0 - (headTravel % cycleLength), cycleLength = 1.0 + ribbonLength
HeadX(headTravel, ribbonLength) == Q - (headTravel % (Q + ribbonLength))

\* const waveOffset = (headTravel * 2) % 1, P5Canvas.tsx line 814
CpuWaveOffset(headTravel) == (headTravel * 2) % Q
\* const waveOffset = headTravel / ribbonLength, part_006 line 1516
GpuWaveOffset(headTravel, ribbonLength) ==
    ((headTravel \div ribbonLength) * Q) + (((headTravel % ribbonLength) * Q) \div ribbonLength)

\* buildPath: how many of the n samples have pointAge >= 0
PointCount(n, headTravel, ribbonLength) ==
    IF n < 2 THEN n
    ELSE IF headTravel >= ribbonLength THEN n
    ELSE Min(n, ((headTravel * (n - 1)) \div ribbonLength) + 1)

(***************************************************************************)
(* The ribbon loops of the two backends.  A loop returns one entry for     *)
(* each feeling it has looked at, in loop order: what it computed for the  *)
(* feeling, what became of it (out), and the value of the loop's counter   *)
(* when it was looked at (slot).                                           *)
(***************************************************************************)
\* [...feelings].sort((a, b) => a.createdAt - b.createdAt): a stable sort
RECURSIVE InsertSorted(_, _)
InsertSorted(sorted, f) ==
    IF sorted = <<>> THEN <<f>>
    ELSE IF sorted[Len(sorted)].createdAt <= f.createdAt THEN Append(sorted, f)
    ELSE Append(InsertSorted(SubSeq(sorted, 1, Len(sorted) - 1), f), sorted[Len(sorted)])

RECURSIVE SortByCreatedAt(_)
SortByCreatedAt(list) ==
    IF list = <<>> THEN <<>>
    ELSE InsertSorted(SortByCreatedAt(SubSeq(list, 1, Len(list) - 1)), list[Len(list)])

\* P5Canvas.tsx lines 746-878: the body of the loop for sortedFeelings[fi].
\* With a path of one sample buildPath computes t = 0 / 0 = NaN, NaN < 0 is
\* false, idx0 is NaN, feeling.path[NaN] is undefined, and the destructuring
\* const [, y0] = undefined throws a TypeError out of p.draw (lines 816-839).
CpuEntry(f, fi, total, t, renderedCount) ==
    LET staggerDelay == CpuStaggerDelay(fi, total)
        age == t - f.createdAt - staggerDelay
        vitality == Vitality(age)
        alpha == Alpha(age, vitality)
        baseRibbonLength == CpuBaseRibbonLength(f)
        baseSpeedVariation == BaseSpeedVariation(f)
        ribbonLength == EffectiveLength(baseRibbonLength, vitality)
        speedVariation == SpeedFactor(baseSpeedVariation, vitality)
        headTravel == HeadTravel(age, speedVariation)
        headX == HeadX(headTravel, ribbonLength)
        tailX == headX + ribbonLength
        points == PointCount(f.pathLen, headTravel, ribbonLength)
        maxX == headX + (IF points = f.pathLen THEN ribbonLength
                         ELSE ((points - 1) * ribbonLength) \div (f.pathLen - 1))
        out == IF age < 0 THEN "early"
               ELSE IF AlphaTooLow(alpha) THEN "faded"
               ELSE IF headX > 12000 \/ tailX < -2000 THEN "culled"
               ELSE IF f.pathLen = 1 THEN "throws"
               ELSE IF points < 2 THEN "short"
               ELSE IF maxX < -1000 \/ headX > 11000 THEN "offscreen"
               ELSE "emitted"
    IN  [id |-> f.id, createdAt |-> f.createdAt, staggerDelay |-> staggerDelay,
         age |-> age,
         vitality |-> IF age < 0 THEN -1 ELSE vitality,
         alpha |-> IF age < 0 THEN -1 ELSE alpha,
         ribbonLength |-> IF age < 0 THEN -1 ELSE ribbonLength,
         headTravel |-> IF age < 0 THEN -1 ELSE headTravel,
         headX |-> IF age < 0 THEN -1 ELSE headX,
         waveOffset |-> IF age < 0 THEN -1 ELSE CpuWaveOffset(headTravel),
         out |-> out, slot |-> renderedCount]

\* P5Canvas.tsx lines 742-879: for (fi ...) { if (renderedCount >= cap) break; ... };
\* an exception ends the loop
\* a loop that never breaks
CpuLoopBreakNever(renderedCount, cap) == FALSE
\* if (renderedCount >= effectiveMaxRibbons) break
CpuLoopBreak(renderedCount, cap) == renderedCount >= cap

RECURSIVE CpuLoop(_, _, _, _, _)
CpuLoop(sorted, fi, renderedCount, t, cap) ==
    IF fi >= Len(sorted) \/ CpuLoopBreak(renderedCount, cap) THEN <<>>
    ELSE LET e == CpuEntry(sorted[fi + 1], fi, Len(sorted), t, renderedCount)
         IN  IF e.out = "throws" THEN <<e>>
             ELSE
             <<e>> \o CpuLoop(sorted, fi + 1,
                              IF e.out = "emitted" THEN renderedCount + 1 ELSE renderedCount,
                              t, cap)

\* the ids feelingsCache.get(id) finds
CachedIds(cache) == {c.id : c \in cache}

\* part_006 lines 1472-1553: the body of the loop for sortedFeelings[fi]
GpuEntry(f, fi, total, t, cache, mul, ribbonCount) ==
    LET staggerDelay == GpuStaggerDelay(fi, total)
        age == t - f.createdAt - staggerDelay
        vitality == Vitality(age)
        alpha == Alpha(age, vitality)
        baseRibbonLength == GpuBaseRibbonLength(f)
        baseSpeedVariation == BaseSpeedVariation(f)
        ribbonLength == MulQ(EffectiveLength(baseRibbonLength, vitality), mul)
        speedVariation == SpeedFactor(baseSpeedVariation, vitality)
        headTravel == HeadTravel(age, speedVariation)
        headX == HeadX(headTravel, ribbonLength)
        tailX == headX + ribbonLength
        out == IF f.pathLen < 2 THEN "nopath"
               ELSE IF age < 0 THEN "early"
               ELSE IF f.id \notin CachedIds(cache) THEN "nocache"
               ELSE IF AlphaTooLow(alpha) THEN "faded"
               ELSE IF headX > 13000 \/ tailX < -3000 THEN "culled"
               ELSE "emitted"
    IN  [id |-> f.id, createdAt |-> f.createdAt, staggerDelay |-> staggerDelay,
         age |-> age,
         vitality |-> IF age < 0 THEN -1 ELSE vitality,
         alpha |-> IF age < 0 THEN -1 ELSE alpha,
         ribbonLength |-> IF age < 0 THEN -1 ELSE ribbonLength,
         headTravel |-> IF age < 0 THEN -1 ELSE headTravel,
         headX |-> IF age < 0 THEN -1 ELSE headX,
         waveOffset |-> IF age < 0 THEN -1 ELSE GpuWaveOffset(headTravel, ribbonLength),
         out |-> out, slot |-> ribbonCount]

\* a loop that goes on when the arrays are full
GpuLoopGuardNoCap(fi, total, ribbonCount, maxRibbons) == fi < total
\* fi < totalFeelings && ribbonCount < maxRibbons
GpuLoopGuard(fi, total, ribbonCount, maxRibbons) ==
    fi < total /\ ribbonCount < maxRibbons

\* part_006 lines 1471-1554
RECURSIVE GpuLoop(_, _, _, _, _, _, _)
GpuLoop(sorted, fi, ribbonCount, t, cache, mul, maxRibbons) ==
    IF ~GpuLoopGuard(fi, Len(sorted), ribbonCount, maxRibbons) THEN <<>>
    ELSE LET e == GpuEntry(sorted[fi + 1], fi, Len(sorted), t, cache, mul, ribbonCount)
         IN  <<e>> \o GpuLoop(sorted, fi + 1,
                              IF e.out = "emitted" THEN ribbonCount + 1 ELSE ribbonCount,
                              t, cache, mul, maxRibbons)

\* const maxRibbons = Math.min(isFinite(maxVisibleRibbons) ? maxVisibleRibbons : 5000, 5000)
GpuMaxRibbons(maxVisibleRibbons) ==
    Min(IF isFinite(maxVisibleRibbons) THEN maxVisibleRibbons ELSE GPU_RIBBON_CAP,
        GPU_RIBBON_CAP)

\* new Float32Array(maxRibbons * INSTANCE_FLOATS), new Float32Array(MAX_PATH_POINTS * maxRibbons)
InstanceDataLength == gpuMaxRibbons * INSTANCE_FLOATS
PathTextureDataLength == MAX_PATH_POINTS * gpuMaxRibbons

\* feelings[0]?.id, <<>> for undefined
FirstId(list) == IF list = <<>> THEN <<>> ELSE list[1].id

\* for (const feeling of feelings) if (!cache.has(feeling.id)) cache.set(...):
\* the cache after the loop; rgb is hexToRgb(feeling.color)
CacheWith(cache, list) ==
    cache \cup { [id |-> list[i].id, rgb |-> list[i].color] :
                   i \in { k \in 1..Len(list) : list[k].id \notin CachedIds(cache) } }


\* part_006 lines 1189-1214: the effect that runs when the feelings prop changes
GpuFeelingsEffect(newFeelings) ==
    IF Len(newFeelings) # gpuLastLen \/ FirstId(newFeelings) # FirstId(gpuSorted)
    THEN /\ gpuSorted' = SortByCreatedAt(newFeelings)
         /\ gpuLastLen' = Len(newFeelings)
         /\ gpuCache' = CacheWith(gpuCache, newFeelings)
    ELSE UNCHANGED <<gpuSorted, gpuLastLen, gpuCache>>

(***************************************************************************)
(* The two renderers as a state machine: both get the same feelings prop   *)
(* and the same settings, and each draws its frames on its own.            *)
(***************************************************************************)
\* Date.now() when the renderers are built
FrameT0 == SEVEN_DAYS_MS + 100000
DAY_MS == SEVEN_DAYS_MS \div 7

\* the time between two frames of a renderer: one frame at 60 fps, and a pause
FrameStepsMs == {17, FADE_IN_MS}
\* by how much the server's clock is ahead of the browser's
ClockSkews == {0, 17}
\* the values of RIBBON_STEPS the model lets the user choose here
FrameRibbonSteps == {10, Infinity}
\* ribbonLengthMultiplier = Math.min(3.0, REFERENCE_ASPECT / aspectRatio):
\* a 16:9 canvas and a narrow portrait canvas
LengthMultipliers == {Q, 3 * Q}

\* the n-th feeling the server has returned, as the renderers see it
MakeFeeling(n, createdAt) ==
    [id |-> Uuid(n), createdAt |-> createdAt, pathLen |-> OUTPUT_POINTS,
     fracs |-> <<(n * 3331) % Q, (n * 7177) % Q, (n * 1933) % Q, (n * 5711) % Q>>,
     color |-> EMOTIONS[((n - 1) % Len(EMOTIONS)) + 1].color]

\* a feeling whose stored path has only pathLen samples
BadFeeling(n, createdAt, pathLen) ==
    [MakeFeeling(n, createdAt) EXCEPT !.pathLen = pathLen]

\* the lists the server has returned when the renderers are built: two
\* feelings of which one is being created now, two of which the first has
\* been updated a moment ago, two that are seven days old (the first is
\* exactly seven days old in a frame 17 ms from the start), one that is
\* seven days old with one whose stagger delay ends in that frame, a list of
\* ManyFeelings from yesterday, and three feelings of which the second has a
\* path of no or one sample
InitialFeelings ==
    { <<MakeFeeling(1, FrameT0 - 5000), BadFeeling(2, FrameT0 - 4000, n),
        MakeFeeling(3, FrameT0 - 3500)>> : n \in {0, 1} } \cup
    { <<MakeFeeling(1, FrameT0 - 1000), MakeFeeling(2, FrameT0)>>,
      <<MakeFeeling(1, FrameT0 - 500), MakeFeeling(2, FrameT0 - 4000)>>,
      <<MakeFeeling(1, (FrameT0 - SEVEN_DAYS_MS) + 17),
        MakeFeeling(2, (FrameT0 - SEVEN_DAYS_MS) + 5000)>>,
      <<MakeFeeling(1, (FrameT0 - SEVEN_DAYS_MS) + 17),
        MakeFeeling(2, (FrameT0 - CPU_STAGGER_MS) + 17)>>,
      [n \in 1..ManyFeelings |-> MakeFeeling(n, (FrameT0 - DAY_MS) + (n * 1000))] }

InitFrame ==
    /\ feelings \in InitialFeelings
    /\ lengthMul \in LengthMultipliers
    /\ settingsRef \in [maxVisibleRibbons : FrameRibbonSteps]
    /\ currentMaxRibbons = settingsRef.maxVisibleRibbons
    /\ fpsSamples = <<>>
    /\ lastFpsCheck = 0
    /\ effectiveMaxRibbons = settingsRef.maxVisibleRibbons
    /\ frameRate = 60
    /\ loadChanges = 0
    /\ settingsChanges = 0
    /\ lastCheck = [kind |-> "none", before |-> currentMaxRibbons,
                    userMax |-> settingsRef.maxVisibleRibbons]
    /\ now = FrameT0
    /\ cpuFrame = <<>>
    /\ gpuSorted = SortByCreatedAt(feelings)
    /\ gpuCache = CacheWith({}, feelings)
    /\ gpuLastLen = Len(feelings)
    /\ gpuMaxRibbons = GpuMaxRibbons(settingsRef.maxVisibleRibbons)
    /\ gpuFrame = <<>>
    /\ fsteps = 0
    /\ IdlePath
    /\ IdleServer
    /\ IdleHome
    /\ IdleRace
    /\ IdleGpu
    /\ IdleClient
    /\ IdleParticles

\* p.draw, P5Canvas.tsx lines 545-879: one frame of the CPU backend
CpuFrame ==
    \E dt \in FrameStepsMs :
        LET t == now + dt
        IN  /\ fsteps < MaxFrameSteps
            /\ fsteps' = fsteps + 1
            /\ now' = t
            /\ Admission(t)
            /\ cpuFrame' = CpuLoop(SortByCreatedAt(feelings), 0, 0, t, effectiveMaxRibbons')
            /\ UNCHANGED <<settingsRef, frameRate, loadChanges, settingsChanges>>
            /\ UNCHANGED <<feelings, lengthMul, gpuSorted, gpuCache, gpuLastLen,
                           gpuMaxRibbons, gpuFrame>>
            /\ UNCHANGED notFrame

\* render, part_006 lines 1438-1664: one processed frame of the GPU backend
GpuFrame ==
    \E dt \in FrameStepsMs :
        LET t == now + dt
        IN  /\ fsteps < MaxFrameSteps
            /\ fsteps' = fsteps + 1
            /\ now' = t
            /\ gpuFrame' = GpuLoop(gpuSorted, 0, 0, t, gpuCache, lengthMul, gpuMaxRibbons)
            /\ UNCHANGED admVars
            /\ UNCHANGED <<feelings, lengthMul, cpuFrame, gpuSorted, gpuCache,
                           gpuLastLen, gpuMaxRibbons>>
            /\ UNCHANGED notFrame

\* the page adds a feeling the server has just created to the feelings prop
\* (createdAt is the server's Date.now()); the GPU backend's effect of lines
\* 1189-1214 runs
AddFeeling ==
    \E skew \in ClockSkews :
        LET added == Append(feelings, MakeFeeling(Len(feelings) + 1, now + skew))
        IN  /\ fsteps < MaxFrameSteps
            /\ fsteps' = fsteps + 1
            /\ feelings' = added
            /\ GpuFeelingsEffect(added)
            /\ UNCHANGED <<admVars, now, lengthMul, cpuFrame, gpuMaxRibbons, gpuFrame>>
            /\ UNCHANGED notFrame

\* the emotion after emotionId in EMOTIONS: what the user changes a feeling to
OtherColor(color) ==
    LET i == CHOOSE j \in 1..Len(EMOTIONS) : EMOTIONS[j].color = color
    IN  EMOTIONS[(i % Len(EMOTIONS)) + 1].color

\* the user changes the feeling they own (the oldest or the newest of the
\* list): handleEmotionSelect, part_002 lines 297-303, puts the feeling the
\* server returned (same id; new colour, path and createdAt) in its place, and
\* the GPU backend's effect of lines 1189-1214 runs
UpdateFeeling ==
    \E k \in {1, Len(feelings)} :
        LET f == feelings[k]
            updated == [feelings EXCEPT
                           ![k] = [f EXCEPT !.createdAt = now, !.color = OtherColor(f.color)]]
        IN  /\ fsteps < MaxFrameSteps
            /\ fsteps' = fsteps + 1
            /\ feelings' = updated
            /\ GpuFeelingsEffect(updated)
            /\ UNCHANGED <<admVars, now, lengthMul, cpuFrame, gpuMaxRibbons, gpuFrame>>
            /\ UNCHANGED notFrame

\* the user moves the ribbon slider: settingsRef follows (P5Canvas.tsx lines
\* 94-97) and the GPU backend's effect runs again with new arrays (part_006
\* lines 1257-1681, maxVisibleRibbons is one of its dependencies)
FrameSettingsChange ==
    \E v \in FrameRibbonSteps :
        /\ v # settingsRef.maxVisibleRibbons
        /\ fsteps < MaxFrameSteps
        /\ fsteps' = fsteps + 1
        /\ settingsRef' = [settingsRef EXCEPT !.maxVisibleRibbons = v]
        /\ gpuMaxRibbons' = GpuMaxRibbons(v)
        /\ gpuFrame' = <<>>
        /\ UNCHANGED <<currentMaxRibbons, fpsSamples, lastFpsCheck, effectiveMaxRibbons,
                       frameRate, loadChanges, lastCheck, settingsChanges, now>>
        /\ UNCHANGED <<feelings, lengthMul, cpuFrame, gpuSorted, gpuCache, gpuLastLen>>
        /\ UNCHANGED notFrame

NextFrame == CpuFrame \/ GpuFrame \/ AddFeeling \/ UpdateFeeling \/ FrameSettingsChange

SpecFrame == InitFrame /\ [][NextFrame]_vars

(***************************************************************************)
(* Backend selection: Home (page.tsx) probes WebGL2 once, renders one of   *)
(* the two renderer components, and WebGLRibbonRenderer's effect calls     *)
(* initWebGL when it is mounted and when one of its dependencies changes.  *)
(***************************************************************************)
\* what the browser can do: no WebGL2 context at all; a context for the probe
\* but initWebGL fails (no context with the renderer's attributes, or a shader
\* that does not compile or link); everything works
Devices == {"noWebGL2", "initFails", "capable"}

\* RIBBON_STEPS, Settings.tsx line 18
SliderSteps == {10, 20, 50, 100, 200, 500, 1000, 2000, Infinity}
\* the renderer buttons, Settings.tsx line 445
RendererModes == {"auto", "webgl", "canvas"}

\* DEFAULT_SETTINGS, Settings.tsx lines 130-136
DEFAULT_SETTINGS == [renderer |-> "auto", maxVisibleRibbons |-> 500]

\* MOBILE_DEFAULT_SETTINGS, Settings.tsx lines 121-127
MOBILE_DEFAULT_SETTINGS == [renderer |-> "auto", maxVisibleRibbons |-> 100]

\* checkWebGL2Support, page.tsx lines 37-46
checkWebGL2Support(dev) == dev # "noWebGL2"

\* initWebGL, WebGLRibbonRenderer lines 1216-1255: null or the programs
initWebGL(dev) == IF dev = "capable" THEN "result" ELSE "null"

\* const useWebGL, page.tsx lines 75-81
useWebGL(supported, renderer) ==
    IF supported = "null" THEN FALSE
    ELSE IF renderer = "canvas" THEN FALSE
    ELSE IF renderer = "webgl" THEN supported = "true"
    ELSE supported = "true"

\* the backend that draws frames: P5Canvas draws once mounted;
\* WebGLRibbonRenderer's effect returns before it starts the render loop when
\* initWebGL returned null (line 1274)
Rendering ==
    IF mounted = "P5Canvas" THEN "cpu"
    ELSE IF mounted = "WebGLRibbonRenderer" /\ glInit = "result" THEN "gpu"
    ELSE "none"

\* the effect on [isMobile, prefersReducedMotion], page.tsx lines 84-93, for a
\* user who does not prefer reduced motion
MobileDefaults(mobile) ==
    /\ hasSetMobileDefaults' = (hasSetMobileDefaults \/ mobile)
    /\ performanceSettings' = IF mobile /\ ~hasSetMobileDefaults
                              THEN MOBILE_DEFAULT_SETTINGS
                              ELSE performanceSettings

\* Home's render with the state (supported, settings, mobile), page.tsx lines
\* 342-356, and the effect of the renderer it returns, WebGLRibbonRenderer
\* lines 1257-1274 and 1681: the effect runs when the component is mounted
\* and when maxVisibleRibbons or isMobile changes
Render(supported, settings, mobile) ==
    LET gpu == useWebGL(supported, settings.renderer)
        rerun == \/ mounted # "WebGLRibbonRenderer"
                 \/ settings.maxVisibleRibbons # performanceSettings.maxVisibleRibbons
                 \/ mobile # isMobile
    IN  /\ mounted' = IF gpu THEN "WebGLRibbonRenderer" ELSE "P5Canvas"
        /\ glInit' = IF ~gpu THEN "none"
                     ELSE IF rerun THEN initWebGL(device)
                     ELSE glInit
        /\ gpuFailed' = \/ gpuFailed
                        \/ supported = "false"
                        \/ (gpu /\ rerun /\ initWebGL(device) = "null")

\* Home after its first render: webglSupported is null, so P5Canvas is mounted
InitHome ==
    /\ device \in Devices
    /\ webglSupported = "null"
    /\ performanceSettings = DEFAULT_SETTINGS
    /\ isMobile = FALSE
    /\ hasSetMobileDefaults = FALSE
    /\ mounted = "P5Canvas"
    /\ glInit = "none"
    /\ gpuFailed = FALSE
    /\ probes = 0
    /\ IdleRace
    /\ IdleGpu
    /\ IdleClient
    /\ IdleParticles
    /\ IdleAdm
    /\ now = 0
    /\ IdlePath
    /\ IdleServer
    /\ IdleFrame

\* the mount effects, page.tsx lines 70-72 and useIsMobile lines 258-275:
\* they have no dependencies and run once, after the first render; then the
\* effect on isMobile runs
ProbeEffect ==
    /\ webglSupported = "null"
    /\ probes' = probes + 1
    /\ webglSupported' = IF checkWebGL2Support(device) THEN "true" ELSE "false"
    /\ \E mobile \in BOOLEAN :
          /\ isMobile' = mobile
          /\ MobileDefaults(mobile)
          /\ Render(webglSupported', performanceSettings', mobile)
    /\ UNCHANGED device
    /\ UNCHANGED <<admVars, now, pathVars, srvVars, frameVars, reqs, gpuVars, clientVars, particleVars>>

\* the user presses one of the renderer buttons, Settings.tsx line 448
SelectRenderer ==
    /\ webglSupported # "null"
    /\ \E mode \in RendererModes \ {performanceSettings.renderer} :
          /\ performanceSettings' = [performanceSettings EXCEPT !.renderer = mode]
          /\ Render(webglSupported, performanceSettings', isMobile)
    /\ UNCHANGED <<device, webglSupported, probes, isMobile, hasSetMobileDefaults>>
    /\ UNCHANGED <<admVars, now, pathVars, srvVars, frameVars, reqs, gpuVars, clientVars, particleVars>>

\* the user moves the ribbon slider, Settings.tsx handleChange
SetMaxVisibleRibbons ==
    /\ webglSupported # "null"
    /\ \E v \in SliderSteps \ {performanceSettings.maxVisibleRibbons} :
          /\ performanceSettings' = [performanceSettings EXCEPT !.maxVisibleRibbons = v]
          /\ Render(webglSupported, performanceSettings', isMobile)
    /\ UNCHANGED <<device, webglSupported, probes, isMobile, hasSetMobileDefaults>>
    /\ UNCHANGED <<admVars, now, pathVars, srvVars, frameVars, reqs, gpuVars, clientVars, particleVars>>

\* the window is resized across MOBILE_BREAKPOINT, useIsMobile lines 259-273
Resize ==
    /\ webglSupported # "null"
    /\ isMobile' = ~isMobile
    /\ MobileDefaults(isMobile')
    /\ Render(webglSupported, performanceSettings', isMobile')
    /\ UNCHANGED <<device, webglSupported, probes>>
    /\ UNCHANGED <<admVars, now, pathVars, srvVars, frameVars, reqs, gpuVars, clientVars, particleVars>>

NextHome == ProbeEffect \/ SelectRenderer \/ SetMaxVisibleRibbons \/ Resize

SpecHome == InitHome /\ [][NextHome]_vars

(***************************************************************************)
(* part_006 (WebGLRibbonRenderer): the life of the main effect             *)
(*                                                                         *)
(* Times of performance.now() are in 1/100 ms.                             *)
(***************************************************************************)
\* the kinds of GL object the component creates
Shaders == {"ribbonVS", "ribbonFS", "particleVS", "particleFS"}
Programs == {"ribbonProgram", "particleProgram"}
Buffers == {"geometryBuffer", "indexBuffer", "instanceBuffer", "particleBuffer"}
Textures == {"pathTexture"}
VertexArrays == {"ribbonVAO", "particleVAO"}
GlNames == Shaders \cup Programs \cup Buffers \cup Textures \cup VertexArrays

\* the steps of initWebGL that can fail on a device
GlFaults == {"none", "context", "ribbonVS", "ribbonFS", "ribbonLink",
             "particleVS", "particleFS", "particleLink"}

GpuPropsSet == [isMobile : BOOLEAN, reducedMotion : BOOLEAN]

\* the time between two moments the host looks at the renderer: a 120 Hz
\* and a 60 Hz display, and a delayed callback
FrameGaps == {833, 1666, 1700}

\* createShader: the shader that exists afterwards (a shader that fails to
\* compile is deleted, lines 1097-1101)
createShader(name, fault) == IF fault = name THEN {} ELSE {name}

\* createProgram: the program that exists afterwards (a program that fails
\* to link is deleted, lines 1111-1115)
createProgram(name, link, fault) == IF fault = link THEN {} ELSE {name}

\* initWebGL: whether it returns a result, and the GL objects that exist when
\* it returns
initWebGLObjects(fault) ==
    IF fault = "context" THEN [ok |-> FALSE, objects |-> {}]
    ELSE
    LET ribbonVS == createShader("ribbonVS", fault)
        ribbonFS == createShader("ribbonFS", fault)
        o1 == ribbonVS \cup ribbonFS
    IN  IF ribbonVS = {} \/ ribbonFS = {} THEN [ok |-> FALSE, objects |-> o1]
        ELSE
        LET ribbonProgram == createProgram("ribbonProgram", "ribbonLink", fault)
            o2 == o1 \cup ribbonProgram
        IN  IF ribbonProgram = {} THEN [ok |-> FALSE, objects |-> o2]
            ELSE
            LET particleVS == createShader("particleVS", fault)
                particleFS == createShader("particleFS", fault)
                o3 == o2 \cup particleVS \cup particleFS
            IN  IF particleVS = {} \/ particleFS = {} THEN [ok |-> FALSE, objects |-> o3]
                ELSE
                LET particleProgram == createProgram("particleProgram", "particleLink", fault)
                    o4 == o3 \cup particleProgram
                IN  [ok |-> particleProgram # {}, objects |-> o4]

\* the objects the effect creates after initWebGL has returned a result
EffectCreates == VertexArrays \cup Buffers \cup Textures

\* the objects the cleanup deletes, lines 1671-1679
CleanupDeletes ==
    {"ribbonProgram", "particleProgram", "geometryBuffer", "instanceBuffer",
     "indexBuffer", "particleBuffer", "pathTexture", "ribbonVAO", "particleVAO"}

\* a throttle that lets every callback through
ThrottledNever(deltaTime, targetFrameTime) == FALSE
\* if (deltaTime < targetFrameTime)
Throttled(deltaTime, targetFrameTime) == deltaTime < targetFrameTime

\* const targetFrameTime = reducedMotion ? 50 : (isMobile ? 33.33 : 16.67)
TargetFrameTime(props) ==
    IF props.reducedMotion THEN 5000 ELSE IF props.isMobile THEN 3333 ELSE 1667

Created(live, names) == [n \in GlNames |-> live[n] + (IF n \in names THEN 1 ELSE 0)]
Deleted(live, names) == [n \in GlNames |-> live[n] - (IF n \in names THEN 1 ELSE 0)]

\* the state the cleanup function of the running effect leaves; an effect
\* whose initWebGL failed has returned no cleanup function (line 1274)
AfterCleanup ==
    IF gpuPhase = "running"
    THEN [live |-> Deleted(glLive, CleanupDeletes),
          listeners |-> resizeListeners - 1]
    ELSE [live |-> glLive, listeners |-> resizeListeners]

\* the body of the effect, lines 1258-1666, run on the state c that a cleanup
\* (or nothing) has left: the listener, initWebGL, the objects, the first call
\* of render, which is throttled because no time has passed since lastTime
EffectBody(c) ==
    LET result == initWebGLObjects(glFault)
    IN  /\ resizeListeners' = c.listeners + 1
        /\ effectRuns' = effectRuns + 1
        /\ IF result.ok
           THEN /\ glLive' = Created(Created(c.live, result.objects), EffectCreates)
                /\ gpuPhase' = "running"
                /\ lastTime' = perfNow
                /\ rafPending' = TRUE
           ELSE /\ glLive' = Created(c.live, result.objects)
                /\ gpuPhase' = "initFailed"
                /\ lastTime' = lastTime
                /\ rafPending' = FALSE

InitGpu ==
    /\ gpuProps \in GpuPropsSet
    /\ glFault \in GlFaults
    /\ gpuPhase = "unmounted"
    /\ glLive = [n \in GlNames |-> 0]
    /\ resizeListeners = 0
    /\ rafPending = FALSE
    /\ perfNow = 0
    /\ lastTime = 0
    /\ processedAt = <<>>
    /\ callbacks = 0
    /\ effectRuns = 0
    /\ now = 0
    /\ IdleAdm
    /\ IdlePath
    /\ IdleServer
    /\ IdleFrame
    /\ IdleHome
    /\ IdleRace
    /\ IdleClient
    /\ IdleParticles

notGpu == <<admVars, now, pathVars, srvVars, frameVars, homeVars, reqs, clientVars, particleVars>>

\* the component is mounted: the effect runs for the first time
Mount ==
    /\ gpuPhase = "unmounted"
    /\ EffectBody([live |-> glLive, listeners |-> resizeListeners])
    /\ UNCHANGED <<gpuProps, glFault, perfNow, processedAt, callbacks>>
    /\ UNCHANGED notGpu

\* a dependency of the effect changes (line 1681): React runs the cleanup the
\* last run returned, if it returned one, and then the effect again
PropsChange ==
    \E props \in GpuPropsSet :
        /\ gpuPhase \in {"running", "initFailed"}
        /\ effectRuns < MaxEffectRuns
        /\ props # gpuProps
        /\ gpuProps' = props
        /\ EffectBody(AfterCleanup)
        /\ UNCHANGED <<glFault, perfNow, processedAt, callbacks>>
        /\ UNCHANGED notGpu

\* the component is unmounted: React runs the cleanup, if there is one;
\* cancelAnimationFrame(animationFrameRef.current), line 1670
Unmount ==
    /\ gpuPhase \in {"running", "initFailed"}
    /\ gpuPhase' = "destroyed"
    /\ glLive' = AfterCleanup.live
    /\ resizeListeners' = AfterCleanup.listeners
    /\ rafPending' = FALSE
    /\ UNCHANGED <<gpuProps, glFault, perfNow, lastTime, processedAt, callbacks,
                   effectRuns>>
    /\ UNCHANGED notGpu

\* the host calls render back, lines 1438-1664
FrameCallback ==
    /\ rafPending
    /\ callbacks < MaxCallbacks
    /\ callbacks' = callbacks + 1
    /\ LET targetFrameTime == TargetFrameTime(gpuProps)
           deltaTime == perfNow - lastTime
       IN  IF Throttled(deltaTime, targetFrameTime)
           THEN /\ rafPending' = TRUE
                /\ UNCHANGED <<lastTime, processedAt>>
           ELSE /\ lastTime' = perfNow
                /\ processedAt' = Append(processedAt,
                                         [at |-> perfNow, target |-> targetFrameTime])
                /\ rafPending' = TRUE
    /\ UNCHANGED <<gpuProps, glFault, gpuPhase, glLive, resizeListeners, perfNow,
                   effectRuns>>
    /\ UNCHANGED notGpu

\* time passes
AdvanceClock ==
    \E dt \in FrameGaps :
        /\ gpuPhase = "running"
        /\ perfNow + dt <= MaxPerfNow
        /\ perfNow' = perfNow + dt
        /\ UNCHANGED <<gpuProps, glFault, gpuPhase, glLive, resizeListeners,
                       rafPending, lastTime, processedAt, callbacks, effectRuns>>
        /\ UNCHANGED notGpu

NextGpu == Mount \/ PropsChange \/ Unmount \/ FrameCallback \/ AdvanceClock

SpecGpu == InitGpu /\ [][NextGpu]_vars

(***************************************************************************)
(* The particles of the GPU renderer, part_006 lines 1397-1433 and         *)
(* 1543-1589.  The list particlesRef.current belongs to the component, so  *)
(* it outlives the runs of the effect; maxParticles and targetParticles    *)
(* belong to one run of the effect.  A particle is its life and maxLife,   *)
(* in ms.  The values of targetParticles stand for the slider's 0..60.     *)
(***************************************************************************)
\* the prop targetParticles
ParticleTargets == {0, 1, 2}
\* life: 3000 + Math.random() * 5000
ParticleLives == {3000, 7000}
\* deltaTime of a frame that does its work, in ms (a tab that was hidden
\* comes back with a long one)
ParticleDeltas == {2000, 4000}
\* how many ribbons of a frame draw Math.random() < 0.015 * vitality
RibbonDraws == 0..2

\* const maxParticles = targetParticles * 3
MaxParticlesOf(target) == target * 3

\* spawnParticle, lines 1412-1428
spawnParticle(list, life, maxParticles) ==
    IF Len(list) >= maxParticles THEN list
    ELSE Append(list, [life |-> life, maxLife |-> life])

\* for (let i = 0; i < n; i++) spawnParticle(): the seeding of lines 1431-1433
\* and the loop over ribbonPositions of lines 1556-1558
RECURSIVE SpawnTimes(_, _, _, _)
SpawnTimes(list, n, life, maxParticles) ==
    IF n = 0 THEN list
    ELSE SpawnTimes(spawnParticle(list, life, maxParticles), n - 1, life, maxParticles)

\* lines 1545-1551: a ribbon's position is collected if particles.length <
\* maxParticles; the list does not grow while the ribbons are looked at
Collected(list, draws, maxParticles) ==
    IF Len(list) < maxParticles THEN draws ELSE 0

\* lines 1561-1585: the update pass from index i on (i counts from 0)
RECURSIVE UpdatePass(_, _, _)
UpdatePass(list, i, deltaTime) ==
    IF i >= Len(list) THEN list
    ELSE LET life == list[i + 1].life - deltaTime
         IN  IF life <= 0
             THEN UpdatePass(SubSeq([list EXCEPT ![i + 1] = list[Len(list)]],
                                    1, Len(list) - 1),
                             i, deltaTime)
             ELSE UpdatePass([list EXCEPT ![i + 1].life = life], i + 1, deltaTime)

\* while (particles.length < targetParticles) spawnParticle(), lines 1587-1589
RECURSIVE Refill(_, _, _, _)
Refill(list, target, life, maxParticles) ==
    IF Len(list) < target
    THEN Refill(spawnParticle(list, life, maxParticles), target, life, maxParticles)
    ELSE list

InitParticles ==
    /\ particles = <<>>
    /\ targetParticles = 0
    /\ lastPass = NoPass
    /\ particleFrames = 0
    /\ particleEffects = 0
    /\ now = 0
    /\ IdleAdm
    /\ IdlePath
    /\ IdleServer
    /\ IdleFrame
    /\ IdleHome
    /\ IdleRace
    /\ IdleGpu
    /\ IdleClient

\* the main effect runs (on mount, and again when one of its dependencies
\* isMobile, reducedMotion, maxVisibleRibbons, enableGlow, targetParticles
\* has changed, line 1681): it seeds the particles
ParticleEffect ==
    \E target \in ParticleTargets, life \in ParticleLives :
        /\ particleEffects < MaxParticleEffects
        /\ particleEffects' = particleEffects + 1
        /\ targetParticles' = target
        /\ particles' = SpawnTimes(particles, target, life, MaxParticlesOf(target))
        /\ lastPass' = NoPass
        /\ UNCHANGED particleFrames
        /\ UNCHANGED <<admVars, now, pathVars, srvVars, frameVars, homeVars, reqs,
                       gpuVars, clientVars>>

\* a frame that does its work: the ribbons' particles, the update pass, the
\* refill
ParticleFrame ==
    \E deltaTime \in ParticleDeltas, draws \in RibbonDraws,
       ribbonLife \in ParticleLives, refillLife \in ParticleLives :
        LET maxParticles == MaxParticlesOf(targetParticles)
            before == SpawnTimes(particles, Collected(particles, draws, maxParticles),
                                 ribbonLife, maxParticles)
            after == UpdatePass(before, 0, deltaTime)
        IN  /\ particleEffects > 0
            /\ particleFrames < MaxParticleFrames
            /\ particleFrames' = particleFrames + 1
            /\ particles' = Refill(after, targetParticles, refillLife, maxParticles)
            /\ lastPass' = [before |-> before, deltaTime |-> deltaTime, after |-> after]
            /\ UNCHANGED <<targetParticles, particleEffects>>
            /\ UNCHANGED <<admVars, now, pathVars, srvVars, frameVars, homeVars, reqs,
                           gpuVars, clientVars>>

NextParticles == ParticleEffect \/ ParticleFrame

SpecParticles == InitParticles /\ [][NextParticles]_vars

(***************************************************************************)
(* Claims about the admission controller, checked under SpecAdm            *)
(***************************************************************************)
\* the last frame ran the periodic check and saw this kind of average
CheckedLow == lastCheck.kind = "low"
CheckedHigh == lastCheck.kind = "high"

\* C1: while the rolling average is below 25, every admission check makes the
\* allowed count strictly smaller until it is 10, where it stays, for every
\* user-configured maximum.
C1_DropStrictlyDecreases ==
    CheckedLow =>
        /\ currentMaxRibbons >= RIBBON_FLOOR
        /\ lastCheck.before > RIBBON_FLOOR => currentMaxRibbons < lastCheck.before
        /\ lastCheck.before = RIBBON_FLOOR => currentMaxRibbons = RIBBON_FLOOR

\* C2, as stated: a check that sees an average above 45 while the count is
\* below the user's maximum adds exactly 5.
C2_RecoveryAddsExactlyFive ==
    (CheckedHigh /\ lastCheck.before < lastCheck.userMax) =>
        currentMaxRibbons = lastCheck.before + RECOVERY_STEP

\* C2, amended: such a check adds 5, or what is left up to the user's maximum
\* when that is less than 5; the result never exceeds the maximum, and a count
\* that is at the maximum stays.
C2_RecoveryStep ==
    CheckedHigh =>
        IF lastCheck.before < lastCheck.userMax
        THEN /\ currentMaxRibbons = IF lastCheck.userMax - lastCheck.before < RECOVERY_STEP
                                    THEN lastCheck.userMax
                                    ELSE lastCheck.before + RECOVERY_STEP
             /\ currentMaxRibbons > lastCheck.before
             /\ currentMaxRibbons <= lastCheck.userMax
        ELSE currentMaxRibbons = lastCheck.before

\* a recovery check that had less than 5 left to the maximum
C2_Witness ==
    /\ CheckedHigh
    /\ lastCheck.before < lastCheck.userMax
    /\ lastCheck.userMax - lastCheck.before < RECOVERY_STEP
    /\ currentMaxRibbons = lastCheck.userMax

\* C3, as stated: after every frame the count the controller keeps lies in
\* [10, the maximum the user has configured at that frame].
C3_StoredCountInRange ==
    fpsSamples # <<>> =>
        /\ currentMaxRibbons >= RIBBON_FLOOR
        /\ currentMaxRibbons <= lastCheck.userMax

\* C3, amended: after every frame the count used to admit ribbons,
\* min(currentMaxRibbons, maxVisibleRibbons), lies in [10, maxVisibleRibbons]
\* and the stored count is at least 10 (it may exceed a maximum that the user
\* has lowered since).
C3_EffectiveCountInRange ==
    /\ effectiveMaxRibbons >= RIBBON_FLOOR
    /\ effectiveMaxRibbons <= lastCheck.userMax
    /\ effectiveMaxRibbons <= currentMaxRibbons
    /\ currentMaxRibbons >= RIBBON_FLOOR

\* a frame drawn after the user lowered the maximum below the stored count
C3_Witness ==
    /\ fpsSamples # <<>>
    /\ currentMaxRibbons > lastCheck.userMax
    /\ effectiveMaxRibbons = lastCheck.userMax

C6_ThirtyTwoPoints ==
    lastCall.path # <<>> =>
        /\ Len(lastCall.path) = 32
        /\ \A i \in 1..Len(lastCall.path) :
               lastCall.path[i][1] * 32 = (i - 1) * XSCALE

(***************************************************************************)
(* Claims about the feelings API, checked under SpecServer                 *)
(***************************************************************************)
\* C5, as stated: the path stored for a feeling is determined by its id and
\* its emotionId alone: whatever POST, PUT or the migration script stores for
\* an id and an emotionId is the path that was first stored for them.
C5_PathFromIdAndEmotion ==
    \A i \in 1..Len(kvFeelings) :
        kvFeelings[i].path = firstPath[<<kvFeelings[i].id, kvFeelings[i].emotionId>>]

(***************************************************************************)
(* Claims about the frame controllers, checked under SpecFrame             *)
(***************************************************************************)
\* the entries of a frame that were drawn (CPU) or written as an instance (GPU)
EmittedIn(frame) == {i \in 1..Len(frame) : frame[i].out = "emitted"}

\* the stagger of a frame, as C7 states it, over the list the frame sorted
StaggerNewestFirst(frame, list) ==
    /\ \A i \in 1..Len(frame) :
           (\A k \in 1..Len(list) :
                list[k].id # frame[i].id => list[k].createdAt < frame[i].createdAt)
               => frame[i].staggerDelay = 0
    /\ \A i, j \in 1..Len(frame) :
           frame[i].createdAt < frame[j].createdAt
               => frame[i].staggerDelay >= frame[j].staggerDelay
    /\ \A i \in 1..Len(frame) : frame[i].staggerDelay <= GPU_STAGGER_CAP_MS

\* C7, as stated: in every frame of either backend the newest feeling has
\* stagger delay 0, an older feeling never has a smaller delay than a newer
\* one, and no delay exceeds the cap.
C7_EntryStagger ==
    /\ StaggerNewestFirst(cpuFrame, feelings)
    /\ StaggerNewestFirst(gpuFrame, gpuSorted)

\* what C8 says of one frame
EmitsOnlyVisible(frame) ==
    \A i \in 1..Len(frame) :
        LET e == frame[i]
        IN  /\ e.out = "emitted" => (e.age >= 0 /\ e.alpha * 100 >= Q)
            /\ (e.age >= 0 /\ e.age < FADE_IN_MS) =>
                   /\ e.alpha * FADE_IN_MS <= e.age * e.vitality
                   /\ e.age * e.vitality < (e.alpha + 1) * FADE_IN_MS
            /\ e.age >= FADE_IN_MS => e.alpha = e.vitality
            /\ e.age = 0 => e.out # "emitted"
            /\ e.age >= SEVEN_DAYS_MS => e.out # "emitted"

\* C8: in both backends a feeling is emitted in a frame only if its age after
\* stagger is at least 0 and its alpha is at least 0.01, alpha being
\* (age / 3000) * vitality during the first 3000 ms and vitality afterwards; a
\* feeling of age 0 and a feeling of age 7 days or more is never emitted.
C8_EmitOnlyVisible ==
    /\ EmitsOnlyVisible(cpuFrame)
    /\ EmitsOnlyVisible(gpuFrame)

\* both backends have drawn a frame that emits a feeling and skips another;
\* the GPU frame has skipped a feeling whose age is exactly 0
C8_Witness ==
    /\ EmittedIn(cpuFrame) # {}
    /\ EmittedIn(gpuFrame) # {}
    /\ \E i \in 1..Len(cpuFrame) : cpuFrame[i].age < 0 /\ cpuFrame[i].out = "early"
    /\ \E i \in 1..Len(gpuFrame) : gpuFrame[i].age = 0 /\ gpuFrame[i].out = "faded"

\* C9: in every frame of the GPU backend the number of instances written is
\* at most min(maxVisibleRibbons, 5000), and every write into instanceData
\* (11 floats per instance) and pathTextureData (100 floats per instance)
\* falls inside the arrays allocated when the renderer was built.
C9_GpuWritesInBounds ==
    /\ Cardinality(EmittedIn(gpuFrame)) <= Min(settingsRef.maxVisibleRibbons, GPU_RIBBON_CAP)
    /\ \A i \in EmittedIn(gpuFrame) :
           /\ gpuFrame[i].slot >= 0
           /\ (gpuFrame[i].slot * INSTANCE_FLOATS) + (INSTANCE_FLOATS - 1) < InstanceDataLength
           /\ (gpuFrame[i].slot * MAX_PATH_POINTS) + (MAX_PATH_POINTS - 1) < PathTextureDataLength

\* a frame that has filled the arrays and left newer feelings out
C9_Witness ==
    /\ isFinite(settingsRef.maxVisibleRibbons)
    /\ Len(gpuSorted) > settingsRef.maxVisibleRibbons
    /\ Cardinality(EmittedIn(gpuFrame)) = settingsRef.maxVisibleRibbons
    /\ Len(gpuFrame) < Len(gpuSorted)
    /\ \E i \in EmittedIn(gpuFrame) :
           (gpuFrame[i].slot * INSTANCE_FLOATS) + INSTANCE_FLOATS = InstanceDataLength

(***************************************************************************)
(* Claims about backend selection, checked under SpecHome                  *)
(***************************************************************************)
\* C10, as stated: once the GPU backend has failed to initialise (the probe
\* found no WebGL2 context, or initWebGL returned null), the CPU backend is
\* the one rendering, whatever renderer the user selects; and the capability
\* probe runs at most once.
C10_FailedGpuFallsBackToCpu ==
    /\ gpuFailed => Rendering = "cpu"
    /\ probes <= 1

(***************************************************************************)
(* Claims about malformed paths, checked under SpecFrame                   *)
(***************************************************************************)
\* the feelings of a list whose path has at least two samples
RECURSIVE GoodFeelings(_)
GoodFeelings(list) ==
    IF list = <<>> THEN <<>>
    ELSE LET rest == GoodFeelings(SubSeq(list, 1, Len(list) - 1))
             f == list[Len(list)]
         IN  IF f.pathLen >= 2 THEN Append(rest, f) ELSE rest

\* the ids of the feelings of a list whose path has fewer than two samples
BadIds(list) == {list[i].id : i \in {j \in 1..Len(list) : list[j].pathLen < 2}}

\* the entries of a frame that are not about a feeling of BadIds(list)
RECURSIVE GoodEntries(_, _)
GoodEntries(frame, list) ==
    IF frame = <<>> THEN <<>>
    ELSE LET rest == GoodEntries(SubSeq(frame, 1, Len(frame) - 1), list)
             e == frame[Len(frame)]
         IN  IF e.id \in BadIds(list) THEN rest ELSE Append(rest, e)

\* the last frame of a backend was drawn from the present list, clock and cap
CpuFrameIsCurrent ==
    /\ cpuFrame # <<>>
    /\ cpuFrame = CpuLoop(SortByCreatedAt(feelings), 0, 0, now, effectiveMaxRibbons)
GpuFrameIsCurrent ==
    /\ gpuFrame # <<>>
    /\ gpuSorted = SortByCreatedAt(feelings)
    /\ gpuFrame = GpuLoop(gpuSorted, 0, 0, now, gpuCache, lengthMul, gpuMaxRibbons)

\* C11, as stated: in a frame of either backend a feeling whose path has
\* fewer than 2 samples raises no exception and takes no ribbon slot, and
\* what the frame does with every other feeling is what it does when the
\* list does not have the bad feeling.
C11_BadPathDropped ==
    /\ CpuFrameIsCurrent =>
         /\ \A i \in 1..Len(cpuFrame) :
                /\ cpuFrame[i].out # "throws"
                /\ cpuFrame[i].id \in BadIds(feelings) => cpuFrame[i].out # "emitted"
         /\ GoodEntries(cpuFrame, feelings)
                = CpuLoop(SortByCreatedAt(GoodFeelings(feelings)), 0, 0, now,
                          effectiveMaxRibbons)
    /\ GpuFrameIsCurrent =>
         /\ \A i \in 1..Len(gpuFrame) :
                gpuFrame[i].id \in BadIds(feelings) => gpuFrame[i].out # "emitted"
         /\ GoodEntries(gpuFrame, feelings)
                = GpuLoop(SortByCreatedAt(GoodFeelings(feelings)), 0, 0, now,
                          gpuCache, lengthMul, gpuMaxRibbons)

(***************************************************************************)
(* Claims about concurrent requests, checked under SpecRace                *)
(***************************************************************************)
\* the requests that have been answered with status 200
Succeeded == {r \in Requests : reqs[r].pc = "done" /\ reqs[r].status = 200}

\* C12, as stated: of the POST and PUT requests of one client IP, however
\* their handlers interleave, no two succeed within one hour of each other,
\* and a request answered 429 has written neither the feelings nor the
\* rate-limit time.
C12_OneSuccessPerHour ==
    /\ \A r1, r2 \in Succeeded :
           (r1 # r2 /\ reqs[r1].ip = reqs[r2].ip /\ reqs[r1].at <= reqs[r2].at)
               => reqs[r2].at - reqs[r1].at >= RATE_LIMIT_MS
    /\ \A r \in Requests :
           (reqs[r].pc = "done" /\ reqs[r].status = 429) => ~reqs[r].wrote

(***************************************************************************)
(* Claims about the lifespan of stored feelings, checked under SpecDev     *)
(***************************************************************************)
\* every stored feeling expires seven days after it was created
LifespanIsTtl ==
    \A i \in 1..Len(kvFeelings) :
        kvFeelings[i].expiresAt - kvFeelings[i].createdAt = FEELINGS_TTL

\* this step is a PUT that was answered 200
PutSucceeds ==
    /\ lastResp' = [op |-> "PUT", status |-> 200]
    /\ ops' = ops + 1
    /\ now' = now

\* the step refreshes one live feeling: same id and updateHash, createdAt and
\* expiresAt moved to now and now + 7 days; no id appears or changes place
PutRefreshesOne ==
    LET live == Live(kvFeelings, now)
    IN  /\ Len(kvFeelings') = Len(live)
        /\ \A i \in 1..Len(live) : kvFeelings'[i].id = live[i].id
        /\ \E i \in 1..Len(live) :
               /\ kvFeelings'[i].updateHash = live[i].updateHash
               /\ kvFeelings'[i].createdAt = now
               /\ kvFeelings'[i].expiresAt = now + FEELINGS_TTL
               /\ \A j \in 1..Len(live) : j # i => kvFeelings'[j] = live[j]

\* C13: after any sequence of POST, PUT and seed operations every stored
\* feeling has expiresAt - createdAt = FEELINGS_TTL (7 days), and a PUT that
\* succeeds moves createdAt and expiresAt of its feeling together and keeps
\* the feeling's id.
C13_LifespanIsSevenDays ==
    /\ []LifespanIsTtl
    /\ [][PutSucceeds => PutRefreshesOne]_vars

\* a feeling has been refreshed by a PUT an hour or more after it was posted
C13_Witness ==
    /\ lastResp = [op |-> "PUT", status |-> 200]
    /\ \E i \in 1..Len(kvFeelings) :
           /\ kvFeelings[i].createdAt = now
           /\ kvFeelings[i].createdAt >= 1 + RATE_LIMIT_MS
           /\ kvFeelings[i].expiresAt = now + FEELINGS_TTL

(***************************************************************************)
(* Claims about the looping head position, checked under SpecFrame         *)
(***************************************************************************)
\* how many whole cycles later the head is looked at again
CyclesLater == 1..3

\* what C14 says of one frame
HeadLoops(frame) ==
    \A i \in 1..Len(frame) :
        LET e == frame[i]
            cycleLength == Q + e.ribbonLength
        IN  e.age >= 0 =>
              /\ e.headX > -e.ribbonLength
              /\ e.headX <= Q
              /\ e.headX = Q - (e.headTravel % cycleLength)
              /\ \A k \in CyclesLater :
                     HeadX(e.headTravel + (k * cycleLength), e.ribbonLength) = e.headX

\* C14: headX = 1 - (headTravel mod cycleLength) with cycleLength = 1 +
\* effective length lies in (-effectiveLength, 1], and a headTravel that is
\* larger by a whole number of cycleLengths gives the same headX, also after
\* the ribbon has gone round many times.
C14_HeadLoops ==
    /\ HeadLoops(cpuFrame)
    /\ HeadLoops(gpuFrame)

\* both backends have looked at a ribbon that has gone round more than a
\* hundred times, and at one that has not yet gone round once
C14_Witness ==
    /\ \E i \in 1..Len(cpuFrame) :
           /\ cpuFrame[i].age >= 0
           /\ cpuFrame[i].headTravel > 100 * (Q + cpuFrame[i].ribbonLength)
    /\ \E i \in 1..Len(gpuFrame) :
           /\ gpuFrame[i].age >= 0
           /\ gpuFrame[i].headTravel > 100 * (Q + gpuFrame[i].ribbonLength)
           /\ gpuFrame[i].headX < 0

(***************************************************************************)
(* Claims about live settings, checked under SpecAdm                       *)
(***************************************************************************)
\* the step is a frame, and the user has moved the ribbon slider since the
\* frame before it (lastCheck.userMax is the setting that frame read)
FirstFrameAfterChange ==
    /\ now' # now
    /\ settingsRef.maxVisibleRibbons # lastCheck.userMax

\* C15: the first frame after the user has raised or lowered the ribbon cap
\* admits ribbons up to the new value of the cap.
C15_NextFrameUsesNewCap ==
    [][FirstFrameAfterChange =>
          effectiveMaxRibbons' = settingsRef.maxVisibleRibbons]_vars

\* the part of C15 the code keeps: the frame reads the new setting, and its
\* cap is the smaller of the new setting and the stored count
C15_NextFrameReadsNewCap ==
    [][FirstFrameAfterChange =>
          /\ lastCheck'.userMax = settingsRef.maxVisibleRibbons
          /\ effectiveMaxRibbons' =
                 Min(currentMaxRibbons', settingsRef.maxVisibleRibbons)]_vars

(***************************************************************************)
(* Claims about the GPU renderer's frame loop and teardown, checked under  *)
(* SpecGpu                                                                 *)
(***************************************************************************)
\* the step is a call of render less than the target interval after lastTime
ThrottledCallback ==
    /\ callbacks' = callbacks + 1
    /\ perfNow - lastTime < TargetFrameTime(gpuProps)

\* such a call changes nothing but the count of calls, and a callback is
\* scheduled after it
NoFrameWork ==
    /\ lastTime' = lastTime
    /\ processedAt' = processedAt
    /\ glLive' = glLive
    /\ rafPending'

\* a frame that did its work came at least its target interval after the
\* one before it
FramesApart ==
    \A i \in 2..Len(processedAt) :
        processedAt[i].at - processedAt[i - 1].at >= processedAt[i].target

\* C16: a frame callback that runs less than the target frame interval (50,
\* 33.33 or 16.67 ms) after the last processed frame does no frame work and
\* schedules the next callback, and two processed frames are never closer
\* than the target interval.
C16_SoftFrameRateCap ==
    /\ []FramesApart
    /\ [][ThrottledCallback => NoFrameWork]_vars

\* two frames have done their work and at least two callbacks were throttled
C16_Witness ==
    /\ Len(processedAt) >= 2
    /\ callbacks >= Len(processedAt) + 2

\* C17: once the GPU renderer is destroyed, or its initialisation has failed
\* partway, no GL object it created is left undeleted, no resize listener of
\* it is attached and no frame callback is scheduled.
C17_GpuReleased ==
    gpuPhase \in {"destroyed", "initFailed"} =>
        /\ \A n \in GlNames : glLive[n] = 0
        /\ resizeListeners = 0
        /\ ~rafPending

(***************************************************************************)
(* Claims comparing the two backends, checked under SpecFrame              *)
(***************************************************************************)
\* what each backend computes from the present list at the present clock
CpuNow == CpuLoop(SortByCreatedAt(feelings), 0, 0, now, effectiveMaxRibbons)
GpuNow == GpuLoop(gpuSorted, 0, 0, now, gpuCache, lengthMul, gpuMaxRibbons)

\* one backend has just drawn a frame, and the GPU backend's sorted list is
\* that of the present feelings
SameListAndClock ==
    /\ CpuFrameIsCurrent \/ GpuFrameIsCurrent
    /\ gpuSorted = SortByCreatedAt(feelings)

\* C18: for the same feelings list at the same clock, every feeling both the
\* CPU and the GPU backend look at has the same stagger delay, age, vitality,
\* alpha, emit-or-skip decision and waveOffset in both.
C18_BackendsAgree ==
    SameListAndClock =>
        LET cpu == CpuNow
            gpu == GpuNow
        IN  \A i \in 1..Len(cpu) : \A j \in 1..Len(gpu) :
                cpu[i].id = gpu[j].id =>
                    /\ cpu[i].staggerDelay = gpu[j].staggerDelay
                    /\ cpu[i].age = gpu[j].age
                    /\ cpu[i].vitality = gpu[j].vitality
                    /\ cpu[i].alpha = gpu[j].alpha
                    /\ (cpu[i].out = "emitted") = (gpu[j].out = "emitted")
                    /\ cpu[i].waveOffset = gpu[j].waveOffset

(***************************************************************************)
(* Claims about vitality, checked under SpecFrame                          *)
(***************************************************************************)
\* the entries of the last frames of both backends whose age is not negative
\* (the others are skipped before vitality is computed)
AgedEntries ==
    { cpuFrame[i] : i \in { k \in 1..Len(cpuFrame) : cpuFrame[k].age >= 0 } } \cup
    { gpuFrame[i] : i \in { k \in 1..Len(gpuFrame) : gpuFrame[k].age >= 0 } }

\* C19: vitality = 1 - min(1, age / lifespan)^0.7 is in [0, 1], is 1 at age 0
\* and 0 from the lifespan on, and of two ages the larger never has the
\* larger vitality.
C19_VitalityDecays ==
    \A a \in AgedEntries :
        /\ a.vitality = Vitality(a.age)
        /\ a.vitality >= 0
        /\ a.vitality <= Q
        /\ a.age = 0 => a.vitality = Q
        /\ a.age >= SEVEN_DAYS_MS => a.vitality = 0
        /\ \A b \in AgedEntries : a.age <= b.age => a.vitality >= b.vitality

\* a frame has looked at a feeling that is exactly seven days old and at a
\* younger one with more vitality
C19_Witness ==
    \E a, b \in AgedEntries :
        /\ a.age = SEVEN_DAYS_MS
        /\ a.vitality = 0
        /\ b.age < a.age
        /\ b.vitality > 0

\* a frame has looked at a feeling of age 0 and at an older one with less
\* vitality
C19_WitnessNew ==
    \E a, b \in AgedEntries :
        /\ a.age = 0
        /\ a.vitality = Q
        /\ b.age > 0
        /\ b.vitality < Q

(***************************************************************************)
(* Claims about the vitality remaps, checked under SpecFrame               *)
(***************************************************************************)
\* the five values of the CPU backend and the three of the GPU backend for
\* feeling f at vitality v
Remapped(f, v) ==
    [length |-> EffectiveLength(CpuBaseRibbonLength(f), v),
     thickness |-> EffectiveThickness(CpuBaseThickness(f), v),
     glow |-> GlowStrength(CpuBaseGlowStrength(f), v),
     speed |-> SpeedFactor(BaseSpeedVariation(f), v),
     spawn |-> ParticleSpawnRate(v),
     gpuLength |-> EffectiveLength(GpuBaseRibbonLength(f), v),
     gpuThickness |-> EffectiveThickness(GpuBaseThickness(f), v)]

\* the pairs of a feeling of the list and a vitality a frame has computed
RemapInputs ==
    { <<feelings[k], e.vitality>> : k \in 1..Len(feelings), e \in AgedEntries }

\* every remap is positive, with its floor at vitality 0
RemapsHaveFloor(f, v) ==
    LET r == Remapped(f, v)
    IN  /\ \A x \in {r.length, r.thickness, r.glow, r.speed, r.spawn,
                     r.gpuLength, r.gpuThickness} : x > 0
        /\ v = 0 =>
              /\ r.length = MulQ(CpuBaseRibbonLength(f), 4000)
              /\ r.thickness = MulQ(CpuBaseThickness(f), 4000)
              /\ r.glow = MulQ(CpuBaseGlowStrength(f), 3000)
              /\ r.speed = MulQ(BaseSpeedVariation(f), 5000)
              /\ r.spawn = 500
              /\ r.gpuLength = MulQ(GpuBaseRibbonLength(f), 4000)
              /\ r.gpuThickness = MulQ(GpuBaseThickness(f), 4000)

\* length, thickness and glow are their base at vitality 1, the spawn rate is
\* its largest value, 0.20
ThreeRemapsReachBase(f, v) ==
    LET r == Remapped(f, v)
    IN  v = Q =>
          /\ r.length = CpuBaseRibbonLength(f)
          /\ r.thickness = CpuBaseThickness(f)
          /\ r.glow = CpuBaseGlowStrength(f)
          /\ r.spawn = 2000
          /\ r.gpuLength = GpuBaseRibbonLength(f)
          /\ r.gpuThickness = GpuBaseThickness(f)

InBand(path) == \A n \in 1..Len(path) : path[n][2] >= Y_MIN /\ path[n][2] <= Y_MAX

\* C21: every y-value of the path generateRibbonPath returns lies in
\* [0.08, 0.92], for each of the eight emotion profiles, every seed and every
\* startY, also a startY outside [0.08, 0.92].
C21_PathInBand ==
    lastCall # NoCall =>
        /\ InBand(lastCall.path)
        /\ \A e \in EmotionIds :
               InBand(generateRibbonPath(FindEmotion(e), lastCall.startY, lastCall.seed))

\* a call with a startY above the band has returned a path that touches the
\* upper edge, and an earlier call with a startY inside the band a path with
\* samples on the edge and samples inside
C21_Witness ==
    /\ lastCall # NoCall
    /\ lastCall.startY > Y_MAX
    /\ \E n \in 1..Len(lastCall.path) : lastCall.path[n][2] = Y_MAX
    /\ \E a \in PathArgs :
           /\ a[2] \in StartYs
           /\ memo[a] # <<>>
           /\ \E n \in 1..Len(memo[a]) : memo[a][n][2] \in {Y_MIN, Y_MAX}
           /\ \E n \in 1..Len(memo[a]) : memo[a][n][2] \notin {Y_MIN, Y_MAX}

\* the control-point count generateRibbonPath draws for a profile and a seed
DrawnCount(emotionId, seed) ==
    NumControlPoints(FindEmotion(emotionId), RngDraw(createSeededRng(seed), 1))

\* C22: the control-point count k drawn for any of the eight profiles is
\* within the profile's range and at least 3, and for each of the output
\* samples the four control-point indices are within 0..k-1.
C22_ControlPointsInRange ==
    lastCall # NoCall =>
        \A e \in EmotionIds :
            LET k == DrawnCount(e, lastCall.seed)
                range == FindEmotion(e).controlPoints
            IN  /\ range[1] <= k
                /\ k <= range[2]
                /\ k >= 3
                /\ \A i \in 0..(OUTPUT_POINTS - 1) : \A j \in 1..4 :
                       ControlIndices(k, i)[j] \in 0..(k - 1)

\* a call has drawn the largest count of its profile and an earlier call the
\* smallest of its profile
C22_Witness ==
    /\ lastCall # NoCall
    /\ DrawnCount(lastCall.emotionId, lastCall.seed)
           = FindEmotion(lastCall.emotionId).controlPoints[2]
    /\ \E a \in PathArgs :
           /\ memo[a] # <<>>
           /\ DrawnCount(a[1], a[3]) = FindEmotion(a[1]).controlPoints[1]

(***************************************************************************)
(* Claims about the GPU backend's cached list, checked under SpecFrame     *)
(***************************************************************************)
\* the list the frame loop iterates is the present feelings list, sorted
SortedIsCurrent == gpuSorted = SortByCreatedAt(feelings)

\* the cached rgb of every feeling of the list is that of its colour
CacheIsCurrent ==
    \A i \in 1..Len(feelings) :
        \E c \in gpuCache : c.id = feelings[i].id /\ c.rgb = feelings[i].color

\* C23: the list the GPU frame loop iterates is the current feelings list
\* sorted by createdAt, and the cached rgb values agree with the current
\* feelings, also after a feeling of the list was added or replaced by an
\* updated one with the same id.
C23_GpuListIsCurrent ==
    /\ SortedIsCurrent
    /\ CacheIsCurrent

(***************************************************************************)
(* Claims about the CPU backend's ribbon cap, checked under SpecFrame      *)
(***************************************************************************)
\* the last CPU frame drew no more ribbons than its cap
CpuCapRespected == Cardinality(EmittedIn(cpuFrame)) <= effectiveMaxRibbons

\* the last CPU frame looked at the feelings oldest first, and the feelings
\* of the present list it did not get to are at least as new as all it looked at
CpuOldestFirst ==
    /\ \A i, j \in 1..Len(cpuFrame) :
           i < j => cpuFrame[i].createdAt <= cpuFrame[j].createdAt
    /\ CpuFrameIsCurrent =>
           \A k \in 1..Len(feelings) :
               (\A i \in 1..Len(cpuFrame) : cpuFrame[i].id # feelings[k].id)
                   => \A i \in 1..Len(cpuFrame) :
                          cpuFrame[i].createdAt <= feelings[k].createdAt

\* the step is a frame of the CPU backend
CpuFrameStep == cpuFrame' # cpuFrame \/ lastCheck' # lastCheck \/ fpsSamples' # fpsSamples

\* C24: every CPU frame passes at most min(adaptive count, user-configured
\* maxVisibleRibbons) ribbons to drawRibbon and considers the feelings in
\* ascending createdAt order, so the feelings left out by the cap are the
\* newest.
C24_CpuCapOldestFirst ==
    /\ [](CpuCapRespected /\ CpuOldestFirst)
    /\ [][CpuFrameStep =>
             effectiveMaxRibbons' = Min(currentMaxRibbons', settingsRef.maxVisibleRibbons)]_vars

\* a CPU frame has drawn as many ribbons as its cap allows and has left
\* feelings out
C24_Witness ==
    /\ CpuFrameIsCurrent
    /\ isFinite(effectiveMaxRibbons)
    /\ Cardinality(EmittedIn(cpuFrame)) = effectiveMaxRibbons
    /\ Len(cpuFrame) < Len(feelings)

(***************************************************************************)
(* Claims about the admission controller at the target frame rates,        *)
(* checked under SpecAdm                                                   *)
(***************************************************************************)
\* the step is a frame after which every sample of the rolling window is the
\* target rate r
FrameAtTarget(r) ==
    /\ now' # now
    /\ Len(fpsSamples') = FPS_SAMPLE_SIZE
    /\ \A i \in 1..Len(fpsSamples') : fpsSamples'[i] = r

\* C25: while the CPU backend sustains exactly its target frame rate (60, 30
\* or 20 fps), the admission controller never lowers the allowed ribbon
\* count.
C25_NeverLowersAtTarget ==
    [][\A r \in TargetFrameRates :
           FrameAtTarget(r) => currentMaxRibbons' >= currentMaxRibbons]_vars

\* what the code does at the two lower targets: at 20 fps a check lowers a
\* finite count above the floor, at 30 fps no check changes the count
C25_LowTargetsDoNotRecover ==
    [][/\ (/\ FrameAtTarget(20)
           /\ lastCheck'.kind # "none"
           /\ currentMaxRibbons > RIBBON_FLOOR
           /\ currentMaxRibbons # Infinity) => currentMaxRibbons' < currentMaxRibbons
       /\ FrameAtTarget(30) => currentMaxRibbons' = currentMaxRibbons]_vars

(***************************************************************************)
(* Claims about the frustum tests, checked under SpecFrame                 *)
(***************************************************************************)
\* the entry got as far as the frustum test: age >= 0, alpha >= 0.01, and on
\* the GPU a path and a cache entry
ReachesFrustumTest(e) == e.out \notin {"early", "faded", "nopath", "nocache"}

\* the head and the tail of every ribbon that reaches the test are where the
\* test lets them pass
HeadAndTailOnScreen(frame) ==
    \A i \in 1..Len(frame) :
        ReachesFrustumTest(frame[i]) =>
            /\ frame[i].headX <= Q
            /\ frame[i].headX + frame[i].ribbonLength > 0
            /\ frame[i].out \notin {"culled", "offscreen"}

\* every ribbon of the frame that reaches the test is emitted
AllReachingEmitted(frame) ==
    \A i \in 1..Len(frame) :
        ReachesFrustumTest(frame[i]) => frame[i].out = "emitted"

\* C26: for every ribbon that reaches the frustum test, headX <= 1 and
\* headX + ribbonLength > 0, so neither backend's test skips a ribbon: every
\* such ribbon is emitted (GPU) or counted (CPU) in every frame.
C26_ReachingIsEmitted ==
    /\ HeadAndTailOnScreen(cpuFrame) /\ AllReachingEmitted(cpuFrame)
    /\ HeadAndTailOnScreen(gpuFrame) /\ AllReachingEmitted(gpuFrame)

\* C26 as the code has it: no frustum test skips a ribbon; the GPU emits
\* every ribbon that reaches the test, the CPU draws and counts it unless
\* buildPath returns fewer than two points (the ribbon has only begun to
\* enter) or throws (a path of one sample).
C26_FrustumNeverSkips ==
    /\ HeadAndTailOnScreen(cpuFrame)
    /\ HeadAndTailOnScreen(gpuFrame)
    /\ AllReachingEmitted(gpuFrame)
    /\ \A i \in 1..Len(cpuFrame) :
           ReachesFrustumTest(cpuFrame[i]) =>
               cpuFrame[i].out \in {"emitted", "short", "throws"}

\* both backends have emitted a ribbon whose head has left the screen on the
\* left while its tail is still on it
C26_Witness ==
    /\ \E i \in 1..Len(cpuFrame) : cpuFrame[i].out = "emitted" /\ cpuFrame[i].headX < 0
    /\ \E i \in 1..Len(gpuFrame) : gpuFrame[i].out = "emitted" /\ gpuFrame[i].headX < 0

(***************************************************************************)
(* Claims about the ETag of GET /api/feelings, checked under SpecClient    *)
(***************************************************************************)
\* the ids of a list, in order
IdList(list) == IF list = <<>> THEN <<>> ELSE [i \in 1..Len(list) |-> list[i].id]

\* C27: GET /api/feelings answers 304 Not Modified only when the public list
\* it would return is identical (ids, paths, colours, createdAt) to the list
\* for which the presented ETag was issued.
C27_NotModifiedOnlyIfSame ==
    lastFetch.status = 304 => lastFetch.publicFeelings = etagIssuedFor

\* what the code guarantees: a 304 means the same ids in the same order
C27_NotModifiedSameIds ==
    lastFetch.status = 304 =>
        IdList(lastFetch.publicFeelings) = IdList(etagIssuedFor)

(***************************************************************************)
(* Claims about contributing again, checked under SpecClient               *)
(***************************************************************************)
\* the page holds an update hash, and the feeling it belongs to has expired
HashExpired ==
    /\ storedHash # <<>>
    /\ FindIndex(Live(kvFeelings, now), storedHash) = 0

\* after the step a feeling made in this step is stored and shown
StoredAndShown ==
    \E i \in 1..Len(kvFeelings') :
        /\ kvFeelings'[i].createdAt = now
        /\ \E j \in 1..Len(homeFeelings') : homeFeelings'[j] = kvFeelings'[i]

\* C29: a client that once created a feeling can contribute again: after its
\* feeling has expired and its rate limit has passed, selecting an emotion
\* leads to a feeling being stored and shown, not to 'Feeling not found'.
C29_CanContributeAgain ==
    [][(handleEmotionSelect /\ HashExpired /\ ~RateLimited(HomeIP, now))
          => (lastSelect' = 200 /\ StoredAndShown)]_vars

\* what the code does: once the feeling of the stored hash has expired, the
\* hash stays stored and expired, and every selection ends in 404 (or 429)
C29_ExpiredNeverSucceeds ==
    [][HashExpired =>
          /\ HashExpired'
          /\ storedHash' = storedHash
          /\ handleEmotionSelect =>
                 /\ lastSelect' = IF RateLimited(HomeIP, now) THEN 429 ELSE 404
                 /\ UNCHANGED <<kvFeelings, homeFeelings>>]_vars

(***************************************************************************)
(* Claims about concurrent writes, checked under SpecRace                  *)
(***************************************************************************)
\* the feeling request r wrote is in the stored list with the data r wrote,
\* unless it has expired or a later PUT for the same feeling has replaced
\* the data
WriteKept(r) ==
    IF reqs[r].kind = "POST"
    THEN \/ now >= reqs[r].feeling.expiresAt
         \/ \E i \in 1..Len(kvFeelings) : kvFeelings[i].id = reqs[r].feeling.id
    ELSE \/ now >= reqs[r].t + FEELINGS_TTL
         \/ \E i \in 1..Len(kvFeelings) :
                /\ kvFeelings[i].updateHash = reqs[r].updateHash
                /\ \/ /\ kvFeelings[i].createdAt = reqs[r].t
                      /\ kvFeelings[i].emotionId = reqs[r].emotionId
                   \/ \E p \in Requests \ {r} :
                          /\ reqs[p].kind = "PUT"
                          /\ reqs[p].updateHash = reqs[r].updateHash
                          /\ reqs[p].wrote

\* C28: for any interleaving of concurrent POST and PUT handlers, every
\* request that returned success has its feeling, with the data it wrote, in
\* the stored list afterwards until it expires: no successful write is lost
\* to another handler's read-modify-write.
C28_NoLostWrite == \A r \in Succeeded : WriteKept(r)

\* what holds: a request that succeeded alone, with no other handler between
\* its kv.get and its kv.set, keeps its write
C28_AloneKeepsWrite ==
    \A r \in Succeeded :
        (\A p \in Requests \ {r} : ~reqs[p].wrote) => WriteKept(r)

(***************************************************************************)
(* Claims about the particles, checked under SpecParticles                 *)
(***************************************************************************)
\* how many particles of the list have this life and this maxLife
CountOf(list, life, maxLife) ==
    Cardinality({i \in 1..Len(list) : list[i].life = life /\ list[i].maxLife = maxLife})

\* the update pass left no particle with life <= 0
NoDeadParticle ==
    \A i \in 1..Len(lastPass.after) : lastPass.after[i].life > 0

\* the particles after the pass are those from before it whose life less
\* deltaTime is positive, each with its life decreased by deltaTime once
DecreasedOnce ==
    /\ \A i \in 1..Len(lastPass.before) :
           LET p == lastPass.before[i]
           IN  CountOf(lastPass.after, p.life - lastPass.deltaTime, p.maxLife)
                   = IF p.life - lastPass.deltaTime > 0
                     THEN CountOf(lastPass.before, p.life, p.maxLife)
                     ELSE 0
    /\ \A i \in 1..Len(lastPass.after) :
           LET p == lastPass.after[i]
           IN  CountOf(lastPass.before, p.life + lastPass.deltaTime, p.maxLife) > 0

\* the frame ended with at least targetParticles particles
AtLeastTarget == Len(particles) >= targetParticles
\* the frame ended with at most maxParticles particles
AtMostMax == Len(particles) <= MaxParticlesOf(targetParticles)

C30_PassAndLowerBound ==
    lastPass # NoPass =>
        /\ NoDeadParticle
        /\ DecreasedOnce
        /\ AtLeastTarget
        /\ particleEffects = 1 => AtMostMax

====
